---- MODULE Spec2Model ----
(***************************************************************************)
(* A model of rusty-tree: the Morton key algebra (src/src/morton.rs), the  *)
(* local tree operations (crates/rusty-tree/src/octree.rs) and the         *)
(* distributed tree builder (crates/rusty-tree/src/distributed.rs).        *)
(*                                                                         *)
(* A 64-bit packed identifier is held as a triple <<hi, lo, lv>> with      *)
(*     morton = hi * 2^39 + lo * 2^15 + lv,                                *)
(* hi the bits 39..63, lo the bits 15..38 and lv the bits 0..14 (the       *)
(* level), so that every component fits a 32-bit integer of TLC            *)
(* and the unsigned order of identifiers is the lexicographic order of     *)
(* the triples.  The identifier without its level bits (morton >> 15) is   *)
(* the pair <<hi, lo>>.                                                    *)
(***************************************************************************)
EXTENDS Integers, Sequences, FiniteSets, TLC

VARIABLES
    overflow_checks, \* build profile: TRUE = arithmetic overflow panics (debug), FALSE = it wraps (release)
    size,            \* number of ranks of the communicator
    balanced,        \* DistributedTree.balanced
    input,           \* the coordinates of the points given to the ranks together
    pc,              \* pc[r]: position of rank r in DistributedTree::new
    points,          \* points[r]: the rank's Vec<Point>
    tree,            \* tree[r]: keys of the local Tree (phases 3, 4 and 9)
    seeds,           \* seeds[r]: the rank's seed list
    blocktree,       \* blocktree[r]: keys of the Tree returned by complete_blocktree
    chan,            \* chan[r]: messages in flight to rank r, in the order sent
    points_to_keys,  \* points_to_keys[r]: the rank's HashMap leaf key -> block
    keys,            \* keys[r]: DistributedTree.keys
    bufsize,         \* bufsize[r]: the count received in transfer_points_to_blocktree
    fn               \* a call of a single function: its arguments, then its result

vars == <<overflow_checks, size, balanced, input, pc, points, tree, seeds, blocktree,
          chan, points_to_keys, keys, bufsize, fn>>

-----------------------------------------------------------------------------
(* Program constants *)

DEEPEST_LEVEL == 16
LEVEL_SIZE == 65536
LEVEL_DISPLACEMENT == 15
LEVEL_MASK == 32767
BYTE_MASK == 255
BYTE_DISPLACEMENT == 8
NINE_BIT_MASK == 511

(* Width of the lo component of an identifier, and of a usize/u64 shift. *)
LoBits == 24
WordBits == 64

Pow2(n) == 2 ^ n

-----------------------------------------------------------------------------
(* Bit operations on a value p = <<hi, lo>> standing for hi * 2^24 + lo.   *)

\* (p >> from) & (2^n - 1), for n <= 24
Bits(p, from, n) ==
    IF from >= LoBits + 25 THEN 0
    ELSE IF from >= LoBits THEN (p[1] \div Pow2(from - LoBits)) % Pow2(n)
    ELSE IF from + n <= LoBits THEN (p[2] \div Pow2(from)) % Pow2(n)
    ELSE (p[2] \div Pow2(from))
           + (p[1] % Pow2(from + n - LoBits)) * Pow2(LoBits - from)

\* (p >> s) << s
ZeroLow(p, s) ==
    IF s >= LoBits + 25 THEN <<0, 0>>
    ELSE IF s >= LoBits THEN <<(p[1] \div Pow2(s - LoBits)) * Pow2(s - LoBits), 0>>
    ELSE <<p[1], (p[2] \div Pow2(s)) * Pow2(s)>>

\* p | ((1 << s) - 1), for s <= 48
OrLowMask(p, s) ==
    IF s <= LoBits THEN <<p[1], (p[2] \div Pow2(s)) * Pow2(s) + Pow2(s) - 1>>
    ELSE <<(p[1] \div Pow2(s - LoBits)) * Pow2(s - LoBits) + Pow2(s - LoBits) - 1,
           Pow2(LoBits) - 1>>

\* p | (1 << pos); a bit at or above position 49 is lost by the following << 15
SetBit(p, pos) ==
    IF pos >= LoBits + 25 THEN p
    ELSE IF Bits(p, pos, 1) = 1 THEN p
    ELSE IF pos >= LoBits THEN <<p[1] + Pow2(pos - LoBits), p[2]>>
    ELSE <<p[1], p[2] + Pow2(pos)>>

\* p | (index << s), index < 8
OrIndex(p, index, s) ==
    LET OrBit(q, bit, pos) == IF bit = 1 THEN SetBit(q, pos) ELSE q
    IN  OrBit(OrBit(OrBit(p, index % 2, s), (index \div 2) % 2, s + 1),
              (index \div 4) % 2, s + 2)

\* (p << LEVEL_DISPLACEMENT) | lv
Packed(p, lv) == <<p[1], p[2], lv>>

\* p + n as a 49-bit value, n < 2^24
AddSmall(p, n) ==
    LET lo == p[2] + n
    IN  <<(p[1] + lo \div Pow2(LoBits)) % Pow2(25), lo % Pow2(LoBits)>>

-----------------------------------------------------------------------------
(* Lookup tables.  The entries of the source tables are the bit spreads    *)
(* computed here (the tests of morton.rs assert exactly that).             *)

SpreadBits(b, n, off) ==
    LET RECURSIVE S(_)
        S(i) == IF i = n THEN 0
                ELSE ((b \div Pow2(i)) % 2) * Pow2(3 * i + off) + S(i + 1)
    IN  S(0)

X_LOOKUP_ENCODE == [b \in 0..BYTE_MASK |-> SpreadBits(b, 8, 0)]
Y_LOOKUP_ENCODE == [b \in 0..BYTE_MASK |-> SpreadBits(b, 8, 1)]
Z_LOOKUP_ENCODE == [b \in 0..BYTE_MASK |-> SpreadBits(b, 8, 2)]

GatherBits(c, off) ==
    ((c \div Pow2(off)) % 2) + 2 * ((c \div Pow2(off + 3)) % 2)
        + 4 * ((c \div Pow2(off + 6)) % 2)

X_LOOKUP_DECODE == [c \in 0..NINE_BIT_MASK |-> GatherBits(c, 0)]
Y_LOOKUP_DECODE == [c \in 0..NINE_BIT_MASK |-> GatherBits(c, 1)]
Z_LOOKUP_DECODE == [c \in 0..NINE_BIT_MASK |-> GatherBits(c, 2)]

-----------------------------------------------------------------------------
(* Encoding and decoding *)

find_level(morton) == morton[3]

\* The loop of decode_key_helper reads the key in seven pieces of nine bits,
\* (key >> (index * 9)) & NINE_BIT_MASK for index = 0..6.  Of key = <<hi, lo>>
\* the pieces 0 and 1 lie in lo, piece 2 has the top six bits of lo and the
\* low three of hi, the pieces 3..5 lie in hi and piece 6 is beyond bit 48.
Chunks(key) ==
    <<key[2] % 512, (key[2] \div 512) % 512, key[2] \div 262144 + (key[1] % 8) * 64,
      (key[1] \div 8) % 512, (key[1] \div 4096) % 512, key[1] \div 2097152, 0>>

\* coord | (lookup_table[piece] << (3 * index)) for index = 0..6: the entries
\* are below 8, so the terms do not overlap
decode_key_helper(chunks, lookup_table) ==
    lookup_table[chunks[1]] + 8 * lookup_table[chunks[2]] + 64 * lookup_table[chunks[3]]
      + 512 * lookup_table[chunks[4]] + 4096 * lookup_table[chunks[5]]
      + 32768 * lookup_table[chunks[6]] + 262144 * lookup_table[chunks[7]]

decode_key(morton) ==
    LET Decode(chunks) == <<decode_key_helper(chunks, X_LOOKUP_DECODE),
                            decode_key_helper(chunks, Y_LOOKUP_DECODE),
                            decode_key_helper(chunks, Z_LOOKUP_DECODE)>>
    IN  Decode(Chunks(<<morton[1], morton[2]>>))

\* encode_anchor with the tables of x and z exchanged: a faulty encoder the
\* round trip through decode_key has to tell from the real one
encode_anchor_exchanged(anchor, level) ==
    LET x == anchor[1]
        y == anchor[2]
        z == anchor[3]
        high == X_LOOKUP_ENCODE[(z \div Pow2(BYTE_DISPLACEMENT)) % Pow2(8)]
                  + Y_LOOKUP_ENCODE[(y \div Pow2(BYTE_DISPLACEMENT)) % Pow2(8)]
                  + Z_LOOKUP_ENCODE[(x \div Pow2(BYTE_DISPLACEMENT)) % Pow2(8)]
        low == X_LOOKUP_ENCODE[z % Pow2(8)] + Y_LOOKUP_ENCODE[y % Pow2(8)]
                  + Z_LOOKUP_ENCODE[x % Pow2(8)]
    IN  <<high, low, level>>

encode_anchor(anchor, level) ==
    LET x == anchor[1]
        y == anchor[2]
        z == anchor[3]
        high == Z_LOOKUP_ENCODE[(z \div Pow2(BYTE_DISPLACEMENT)) % Pow2(8)]
                  + Y_LOOKUP_ENCODE[(y \div Pow2(BYTE_DISPLACEMENT)) % Pow2(8)]
                  + X_LOOKUP_ENCODE[(x \div Pow2(BYTE_DISPLACEMENT)) % Pow2(8)]
        low == Z_LOOKUP_ENCODE[z % Pow2(8)] + Y_LOOKUP_ENCODE[y % Pow2(8)]
                  + X_LOOKUP_ENCODE[x % Pow2(8)]
    IN  <<high, low, level>>

-----------------------------------------------------------------------------
(* MortonKey *)

MortonKey(anchor, morton) == [anchor |-> anchor, morton |-> morton]

ROOT == MortonKey(<<0, 0, 0>>, <<0, 0, 0>>)

\* The value a call that does not return (a panic, a walk that never ends)
\* leaves in place of its result: no key of the program equals it, and every
\* operation given it yields it again.
PanicKey == MortonKey(<<0, 0, 0>>, <<-1, -1, -1>>)
PanicKeys == <<PanicKey>>

\* xs followed by ys, unless one of them stands for a panic
PanicCat(xs, ys) == IF xs = PanicKeys \/ ys = PanicKeys THEN PanicKeys ELSE xs \o ys

level(k) == find_level(k.morton)

from_morton(morton) == MortonKey(decode_key(morton), morton)

from_anchor(anchor) == MortonKey(anchor, encode_anchor(anchor, DEEPEST_LEVEL))

\* PartialEq, Ord: by the packed identifier alone
KeyEq(a, b) == a.morton = b.morton

MortonLess(m, n) ==
    \/ m[1] < n[1]
    \/ m[1] = n[1] /\ m[2] < n[2]
    \/ m[1] = n[1] /\ m[2] = n[2] /\ m[3] < n[3]

KeyLess(a, b) == MortonLess(a.morton, b.morton)
KeyLeq(a, b) == ~KeyLess(b, a)

\* the wrapped u64 difference x - y reduced to a shift amount (release build)
WrapShift(n) == ((n % WordBits) + WordBits) % WordBits

parent(k) ==
    LET lvl == level(k)
        morton == <<k.morton[1], k.morton[2]>>
        \* level - 1 and DEEPEST_LEVEL - parent_level overflow for these levels
        overflows == lvl = 0 \/ lvl - 1 > DEEPEST_LEVEL
        parent_level == (lvl + LEVEL_MASK) % (LEVEL_MASK + 1)
        bit_shift == IF overflows THEN WrapShift(3 * (DEEPEST_LEVEL - (lvl - 1)))
                     ELSE 3 * (DEEPEST_LEVEL - (lvl - 1))
        \* (cleared << 15) | parent_level; the wrapped level of the root has all bits set
        Or(cleared) == IF lvl = 0 THEN <<Pow2(25) - 1, Pow2(LoBits) - 1, LEVEL_MASK>>
                       ELSE Packed(cleared, parent_level)
    IN  IF k = PanicKey \/ (overflows /\ overflow_checks) THEN PanicKey
        ELSE from_morton(Or(ZeroLow(morton, bit_shift)))

first_child(k) ==
    MortonKey(k.anchor, <<k.morton[1], k.morton[2], k.morton[3] + 1>>)

finest_first_child(k) ==
    MortonKey(k.anchor, <<k.morton[1], k.morton[2], DEEPEST_LEVEL - level(k) + k.morton[3]>>)

finest_last_child(k) ==
    LET morton == <<k.morton[1], k.morton[2]>>
        nlevels == DEEPEST_LEVEL - level(k)
        masked == OrLowMask(morton, 3 * nlevels)
        sum == AddSmall(masked, DEEPEST_LEVEL)
    IN  \* from_morton(morton + DEEPEST_LEVEL): the sum is read as a packed identifier
        from_morton(<<sum[1] \div Pow2(LEVEL_DISPLACEMENT),
                      (sum[1] % Pow2(LEVEL_DISPLACEMENT)) * Pow2(LoBits - LEVEL_DISPLACEMENT)
                         + sum[2] \div Pow2(LEVEL_DISPLACEMENT),
                      sum[2] % Pow2(LEVEL_DISPLACEMENT)>>)

\* children with the bits of the index put at the level of the key itself,
\* one level too high
children_at_own_level(k) ==
    LET lvl == level(k)
        morton == <<k.morton[1], k.morton[2]>>
        bit_shift == IF lvl < DEEPEST_LEVEL THEN 3 * (DEEPEST_LEVEL - lvl)
                     ELSE WrapShift(3 * (DEEPEST_LEVEL - lvl))
        child(index) == from_morton(Packed(OrIndex(morton, index, bit_shift), lvl + 1))
    IN  IF k = PanicKey \/ (lvl >= DEEPEST_LEVEL /\ overflow_checks) THEN PanicKeys
        ELSE [i \in 1..8 |-> child(i - 1)]

children(k) ==
    LET lvl == level(k)
        morton == <<k.morton[1], k.morton[2]>>
        bit_shift == IF lvl < DEEPEST_LEVEL THEN 3 * (DEEPEST_LEVEL - lvl - 1)
                     ELSE WrapShift(3 * (DEEPEST_LEVEL - lvl - 1))
        child(index) == from_morton(Packed(OrIndex(morton, index, bit_shift), lvl + 1))
    IN  IF k = PanicKey \/ (lvl >= DEEPEST_LEVEL /\ overflow_checks) THEN PanicKeys
        ELSE [i \in 1..8 |-> child(i - 1)]

siblings(k) == children(parent(k))

\* the HashSet of strict ancestors; {PanicKey} when a parent() call panics
ancestors(k) ==
    LET RECURSIVE Up(_, _)
        RECURSIVE Insert(_, _)
        Up(current, n) ==
            IF current = PanicKey THEN {PanicKey}
            ELSE IF level(current) > 0 /\ n > 0 THEN Insert(parent(current), n)
            ELSE {}
        Insert(current, n) == {current} \cup Up(current, n - 1)
    IN  Up(k, LEVEL_MASK + 1)

\* HashSet::contains, HashMap lookup: by Eq of the packed identifier
Contains(set, k) == \E c \in set : KeyEq(c, k)

is_ancestor(a, b) == Contains(ancestors(b), a)

is_descendent(a, b) == is_ancestor(b, a)

\* the number of parent() steps a walk may take before it is cut off: a walk
\* that passes the root in a release build never meets an ancestor again
WalkFuel == 2 * DEEPEST_LEVEL + 8

finest_ancestor(self, other) ==
    LET RECURSIVE Climb(_, _, _)
        RECURSIVE Test(_, _, _)
        \* current = current.parent(), then the loop condition
        Climb(my_ancestors, current, n) == Test(my_ancestors, parent(current), n)
        Test(my_ancestors, current, n) ==
            IF current = PanicKey \/ n = 0 \/ PanicKey \in my_ancestors THEN PanicKey
            ELSE IF Contains(my_ancestors, current) THEN current
            ELSE Climb(my_ancestors, current, n - 1)
    IN  IF KeyEq(self, other) THEN other
        ELSE Climb(ancestors(self), other, WalkFuel)

find_key_in_direction(k, direction) ==
    LET lvl == level(k)
        max_number_of_boxes == Pow2(lvl)
        step_multiplier == Pow2(DEEPEST_LEVEL - lvl)
        x == k.anchor[1] + step_multiplier * direction[1]
        y == k.anchor[2] + step_multiplier * direction[2]
        z == k.anchor[3] + step_multiplier * direction[3]
    IN  IF x >= 0 /\ y >= 0 /\ z >= 0 /\ x < max_number_of_boxes
           /\ y < max_number_of_boxes /\ z < max_number_of_boxes
        THEN <<MortonKey(<<x, y, z>>, encode_anchor(<<x, y, z>>, lvl))>>
        ELSE <<>>

-----------------------------------------------------------------------------
(* Local tree operations (Tree of octree.rs) *)

\* Vec::sort of keys (stable)
SortKeys(ks) == SortSeq(ks, KeyLess)

Range(sq) == {sq[i] : i \in 1..Len(sq)}

\* the least key of a non-empty set of keys
LeastOf(set) == CHOOSE k \in set : \A o \in set : KeyLeq(k, o)

\* Iterator::min and Iterator::max of a non-empty key list: the first of the
\* least keys, the last of the greatest
KeyMin(ks) ==
    LET Lesser(k, o) == IF KeyLess(o, k) THEN o ELSE k
        RECURSIVE Least(_, _)
        Least(lo, hi) == IF lo = hi THEN ks[lo]
                         ELSE Lesser(Least(lo, (lo + hi) \div 2),
                                     Least((lo + hi) \div 2 + 1, hi))
    IN  Least(1, Len(ks))

KeyMax(ks) ==
    LET Greater(k, o) == IF KeyLess(o, k) THEN k ELSE o
        RECURSIVE Greatest(_, _)
        Greatest(lo, hi) == IF lo = hi THEN ks[lo]
                            ELSE Greater(Greatest(lo, (lo + hi) \div 2),
                                         Greatest((lo + hi) \div 2 + 1, hi))
    IN  Greatest(1, Len(ks))

linearize_keys(ks) ==
    LET nkeys == Len(ks)
        RECURSIVE Windows(_, _)
        Windows(j, new_keys) ==
            IF j > nkeys THEN new_keys
            ELSE LET a == ks[j - 1]
                     b == ks[j]
                     kept == IF ~is_ancestor(a, b) THEN Append(new_keys, a) ELSE new_keys
                 IN  Windows(j + 1, IF j = nkeys THEN Append(kept, b) ELSE kept)
    IN  Windows(2, <<>>)

\* concatenation of the children of every key of ks; PanicKeys if a call panics
ChildrenOfAll(ks) ==
    LET RECURSIVE Cat(_)
        Cat(i) == IF i > Len(ks) THEN <<>> ELSE PanicCat(children(ks[i]), Cat(i + 1))
    IN  IF ks = PanicKeys THEN PanicKeys ELSE Cat(1)

\* complete_region with a work list that starts from the grandchildren of the
\* finest ancestor: the region is tiled, but with the children of the cells
\* that lie whole between a and b
complete_region_from_grandchildren(a, b) ==
    LET Emitted(b_ancestors, current_item) ==
            KeyLess(a, current_item) /\ KeyLess(current_item, b)
                /\ ~Contains(b_ancestors, current_item)
        Pushed(a_ancestors, b_ancestors, current_item) ==
            ~Emitted(b_ancestors, current_item)
                /\ (Contains(a_ancestors, current_item) \/ Contains(b_ancestors, current_item))
        RECURSIVE Work(_, _, _, _)
        Work(a_ancestors, b_ancestors, work_list, n) ==
            IF work_list = <<>> THEN <<>>
            ELSE IF work_list = PanicKeys \/ n = 0 THEN PanicKeys
            ELSE PanicCat(
                   SelectSeq(work_list, LAMBDA c : Emitted(b_ancestors, c)),
                   Work(a_ancestors, b_ancestors,
                        ChildrenOfAll(SelectSeq(work_list,
                                                LAMBDA c : Pushed(a_ancestors, b_ancestors, c))),
                        n - 1))
        Loop(a_ancestors, b_ancestors, fa) ==
            IF PanicKey \in a_ancestors \cup b_ancestors THEN PanicKeys
            ELSE SortKeys(Work(a_ancestors, b_ancestors, ChildrenOfAll(children(fa)),
                               WalkFuel))
    IN  Loop(ancestors(a), ancestors(b), finest_ancestor(a, b))

\* The work list is a stack and every popped item is handled on its own, so
\* the loop is run here one generation of the work list at a time: the keys
\* pushed are the same, and the result is sorted before it is returned.
complete_region(a, b) ==
    LET Emitted(b_ancestors, current_item) ==
            KeyLess(a, current_item) /\ KeyLess(current_item, b)
                /\ ~Contains(b_ancestors, current_item)
        Pushed(a_ancestors, b_ancestors, current_item) ==
            ~Emitted(b_ancestors, current_item)
                /\ (Contains(a_ancestors, current_item) \/ Contains(b_ancestors, current_item))
        RECURSIVE Work(_, _, _, _)
        Work(a_ancestors, b_ancestors, work_list, n) ==
            IF work_list = <<>> THEN <<>>
            ELSE IF work_list = PanicKeys \/ n = 0 THEN PanicKeys
            ELSE PanicCat(
                   SelectSeq(work_list, LAMBDA c : Emitted(b_ancestors, c)),
                   Work(a_ancestors, b_ancestors,
                        ChildrenOfAll(SelectSeq(work_list,
                                                LAMBDA c : Pushed(a_ancestors, b_ancestors, c))),
                        n - 1))
        Loop(a_ancestors, b_ancestors, fa) ==
            IF PanicKey \in a_ancestors \cup b_ancestors THEN PanicKeys
            ELSE SortKeys(Work(a_ancestors, b_ancestors, children(fa), WalkFuel))
    IN  Loop(ancestors(a), ancestors(b), finest_ancestor(a, b))

\* LinearTree::complete_region of serial_octree.rs: the working list is a
\* HashSet, rebuilt in rounds until every key of it is one of the region
LinearTree_complete_region(a, b) ==
    LET Emitted(b_ancestors, w) ==
            KeyLess(a, w) /\ KeyLess(w, b) /\ ~Contains(b_ancestors, w)
        Pushed(a_ancestors, b_ancestors, w) ==
            ~Emitted(b_ancestors, w)
                /\ (Contains(a_ancestors, w) \/ Contains(b_ancestors, w))
        RECURSIVE Round(_, _, _, _)
        Rebuild(a_ancestors, b_ancestors, kept, pushed, all, n) ==
            IF Len(kept) = Len(all) THEN SortKeys(kept)
            ELSE Round(a_ancestors, b_ancestors, PanicCat(kept, ChildrenOfAll(pushed)), n - 1)
        Round(a_ancestors, b_ancestors, working_list, n) ==
            IF working_list = PanicKeys \/ n = 0 THEN PanicKeys
            ELSE Rebuild(a_ancestors, b_ancestors,
                         SelectSeq(working_list, LAMBDA w : Emitted(b_ancestors, w)),
                         SelectSeq(working_list,
                                   LAMBDA w : Pushed(a_ancestors, b_ancestors, w)),
                         working_list, n)
        Loop(a_ancestors, b_ancestors, fa) ==
            IF PanicKey \in a_ancestors \cup b_ancestors THEN PanicKeys
            ELSE Round(a_ancestors, b_ancestors, children(fa), WalkFuel)
    IN  Loop(ancestors(a), ancestors(b), finest_ancestor(a, b))

\* Tree::complete; unwrap() of the minimum of an empty key list panics
\* the region between a and b with a and b pushed after it
WithBounds(a, b) == PanicCat(complete_region(a, b), <<a, b>>)

complete(ks) ==
    IF ks = <<>> THEN PanicKeys
    ELSE SortKeys(WithBounds(KeyMin(ks), KeyMax(ks)))

\* Tree::linearize
linearize(ks) == linearize_keys(SortKeys(ks))

-----------------------------------------------------------------------------
(* Points *)

Point(coordinate, global_idx, key) ==
    [coordinate |-> coordinate, global_idx |-> global_idx, key |-> key]

\* A coordinate is given in units of half a cell of the deepest level: the
\* domain has its origin at 0 and a diameter of 2 * LEVEL_SIZE units on every
\* axis, and floor((p - origin) * level_size / diameter) is p \div 2.
point_to_anchor(point) == [i \in 1..3 |-> point[i] \div 2]

from_point(point) == from_anchor(point_to_anchor(point))

\* Ord for Point: by the key
PointLess(p, q) == KeyLess(p.key, q.key)

SortPoints(ps) == SortSeq(ps, PointLess)

PointKeys(ps) == [i \in 1..Len(ps) |-> ps[i].key]

-----------------------------------------------------------------------------
(* The distributed builder (DistributedTree of distributed.rs) *)

NCRIT == 2

\* A HashMap<MortonKey, MortonKey> is a set of entries <<leaf, node>>, at most
\* one for each leaf identifier.
MapKeys(map) == {e[1] : e \in map}
MapValues(map) == {e[2] : e \in map}
MapGet(map, k) == (CHOOSE e \in map : KeyEq(e[1], k))[2]

\* the first node of the ascending list of the leaf's ancestors that is a node
FirstAncestorIn(leaf, nodes) ==
    LET First(found) == IF found = {} THEN {} ELSE {LeastOf(found)}
    IN  First({c \in ancestors(leaf) : Contains(nodes, c)})

assign_nodes_to_leaves(leaves, nodes) ==
    LET nodeset == Range(nodes)
    IN  UNION { IF Contains(nodeset, leaf) THEN {<<leaf, leaf>>}
                ELSE {<<leaf, n>> : n \in FirstAncestorIn(leaf, nodeset)}
              : leaf \in Range(leaves) }

\* blocks_to_npoints counting the leaves of the list one by one, so that a
\* key that several points share is counted once for each of them
blocks_to_npoints_by_point(leaves, blocks) ==
    LET Count(blocks_to_leaves) ==
            { <<block, Cardinality({i \in 1..Len(leaves) :
                                      \E e \in blocks_to_leaves :
                                          KeyEq(e[1], leaves[i]) /\ KeyEq(e[2], block)})>>
              : block \in MapValues(blocks_to_leaves) }
    IN  Count(assign_nodes_to_leaves(leaves, blocks))

\* one round of the loop of split_blocks: the entries of blocks_to_npoints
blocks_to_npoints(leaves, blocks) ==
    LET Count(blocks_to_leaves) ==
            { <<block, Cardinality({e \in blocks_to_leaves : KeyEq(e[2], block)})>>
              : block \in MapValues(blocks_to_leaves) }
    IN  Count(assign_nodes_to_leaves(leaves, blocks))

SetToSeq(S) ==
    LET RECURSIVE Build(_)
        Build(T) == IF T = {} THEN <<>>
                    ELSE <<LeastOf(T)>> \o Build(T \ {LeastOf(T)})
    IN  Build(S)

\* The block list after the loop of split_blocks.  The order in which the
\* HashMap is iterated is not kept: the list is only read as a set of nodes.
SplitLoop(leaves, blocks) ==
    LET RECURSIVE Round(_, _)
        RECURSIVE Rebuild(_, _)
        Round(current, n) ==
            IF current = PanicKeys \/ n = 0 THEN PanicKeys
            ELSE Rebuild(blocks_to_npoints(leaves, current), n)
        Rebuild(counts, n) ==
            LET over == {c[1] : c \in {e \in counts : e[2] > NCRIT}}
                under == {c[1] : c \in {e \in counts : e[2] <= NCRIT}}
            IN  IF over = {} THEN SetToSeq(under)
                ELSE Round(PanicCat(SetToSeq(under), ChildrenOfAll(SetToSeq(over))), n - 1)
    IN  Round(blocks, WalkFuel)

\* split_blocks; {<<PanicKey, PanicKey>>} when a call panics
PanicMap == {<<PanicKey, PanicKey>>}

split_blocks(leaves, blocks) ==
    LET Assign(split_blocktree) ==
            IF split_blocktree = PanicKeys THEN PanicMap
            ELSE assign_nodes_to_leaves(leaves, split_blocktree)
    IN  Assign(SplitLoop(leaves, blocks))

find_seeds(leaves) ==
    LET Coarsest(completed) ==
            IF completed = PanicKeys THEN PanicKeys
            ELSE LET coarsest_level ==
                         CHOOSE l \in {level(k) : k \in Range(completed)} :
                             \A k \in Range(completed) : l <= level(k)
                 IN  SortKeys(SelectSeq(completed, LAMBDA k : level(k) = coarsest_level))
    IN  IF leaves = <<>> \/ leaves = PanicKeys THEN PanicKeys
        ELSE Coarsest(WithBounds(KeyMin(leaves), KeyMax(leaves)))

\* complete_blocktree, lines 86-101: the seeds of the first and of the last
\* rank are extended to the bounds of the domain
ExtendSeeds(sds, rank) ==
    LET PushMin(s, cs) == IF cs = PanicKeys THEN PanicKeys
                          ELSE SortKeys(Append(s, KeyMin(cs)))
        PushMax(s, cs) == IF cs = PanicKeys THEN PanicKeys
                          ELSE Append(s, KeyMax(cs))
        First(s) ==
            IF rank # 0 THEN s
            ELSE IF s = <<>> THEN PanicKeys
            ELSE PushMin(s, children(finest_ancestor(finest_first_child(ROOT),
                                                     KeyMin(s))))
        Last(s) ==
            IF s = PanicKeys \/ rank # size - 1 THEN s
            ELSE IF s = <<>> THEN PanicKeys
            ELSE PushMax(s, children(finest_ancestor(finest_last_child(ROOT),
                                                     KeyMax(s))))
    IN  Last(First(sds))

\* complete_blocktree, lines 122-139: the regions between consecutive seeds
CompleteSeeds(sds, rank) ==
    LET RECURSIVE Regions(_)
        Regions(i) ==
            IF i > Len(sds) - 1 THEN <<>>
            ELSE PanicCat(<<sds[i]>>,
                          PanicCat(complete_region(sds[i], sds[i + 1]), Regions(i + 1)))
        Sorted(complete_keys) ==
            IF complete_keys = PanicKeys THEN PanicKeys
            ELSE SortKeys(IF rank = size - 1
                          THEN Append(complete_keys, sds[Len(sds)])
                          ELSE complete_keys)
    IN  IF sds = <<>> THEN PanicKeys ELSE Sorted(Regions(1))

\* transfer_points_to_blocktree, lines 246-252; PanicKey for unwrap() of None
MinSeed(ps, sds, rank) ==
    IF rank = 0
    THEN IF ps = <<>> THEN PanicKey ELSE ps[CHOOSE i \in 1..Len(ps) :
                                            \A j \in 1..Len(ps) : ~PointLess(ps[j], ps[i])].key
    ELSE IF sds = <<>> THEN PanicKey ELSE KeyMin(sds)

-----------------------------------------------------------------------------
(* Bounds of the model *)

MaxRanks == 2
MaxPoints == 4

\* the coordinates the input points are drawn from: the two corners of the
\* domain (the cells with the anchors (0,0,0) and (65535,65535,65535)) and
\* points of the cells with the anchors (3,0,0), (4,0,0) and
\* (65534,65535,65535).  DistributedTree::new takes the bounding cube of the
\* points as the domain, so the inputs it is given hold a point of the cell 0
\* on every axis and one of the cell 65535 on some axis; unbalanced_tree and
\* balanced_tree are given the domain and take every input.
Sites == {<<0, 0, 0>>, <<7, 0, 0>>, <<8, 1, 1>>, <<131069, 131070, 131071>>,
          <<131071, 131071, 131071>>}

SiteLeq(s, t) == KeyLeq(from_point(s), from_point(t))

\* the point sets given to the ranks together: at most MaxPoints points
Inputs ==
    UNION { {sq \in [1..n -> Sites] : \A i \in 1..(n - 1) : SiteLeq(sq[i], sq[i + 1])}
            : n \in 1..MaxPoints }

Ranks == 0..(size - 1)

\* the input points dealt to the ranks in turn: the coordinates rank r is given
LocalInput(coordinates, r, sz) ==
    LET idx == {i \in 1..Len(coordinates) : (i - 1) % sz = r}
        RECURSIVE Pick(_)
        Pick(i) == IF i > Len(coordinates) THEN <<>>
                   ELSE IF i \in idx THEN <<coordinates[i]>> \o Pick(i + 1) ELSE Pick(i + 1)
    IN  Pick(1)

NoFn == [op |-> "none"]

PipelineIdle ==
    /\ size = 1
    /\ balanced = FALSE
    /\ input = <<>>
    /\ pc = [r \in {0} |-> "idle"]
    /\ points = [r \in {0} |-> <<>>]
    /\ tree = [r \in {0} |-> <<>>]
    /\ seeds = [r \in {0} |-> <<>>]
    /\ blocktree = [r \in {0} |-> <<>>]
    /\ chan = [r \in {0} |-> <<>>]
    /\ points_to_keys = [r \in {0} |-> {}]
    /\ keys = [r \in {0} |-> <<>>]
    /\ bufsize = [r \in {0} |-> 0]

\* The state when DistributedTree::new is called on every rank: points[r]
\* holds the coordinates the rank was given (no index or key yet).
Init ==
    /\ overflow_checks \in BOOLEAN
    /\ size \in 1..MaxRanks
    /\ balanced \in BOOLEAN
    /\ pc = [r \in Ranks |-> "encode"]
    /\ input \in Inputs
    /\ points = [r \in Ranks |-> LocalInput(input, r, size)]
    /\ tree = [r \in Ranks |-> <<>>]
    /\ seeds = [r \in Ranks |-> <<>>]
    /\ blocktree = [r \in Ranks |-> <<>>]
    /\ chan = [r \in Ranks |-> <<>>]
    /\ points_to_keys = [r \in Ranks |-> {}]
    /\ keys = [r \in Ranks |-> <<>>]
    /\ bufsize = [r \in Ranks |-> 0]
    /\ fn = NoFn

const == <<overflow_checks, size, balanced, input, fn>>

\* phase 1 (unbalanced_tree lines 301-310, balanced_tree lines 353-362)
Encode(r) ==
    /\ pc[r] = "encode"
    /\ points' = [points EXCEPT ![r] =
                    [i \in 1..Len(points[r]) |->
                        Point(points[r][i], i - 1, from_point(points[r][i]))]]
    /\ pc' = [pc EXCEPT ![r] = "sort1"]
    /\ UNCHANGED <<const, tree, seeds, blocktree, chan, points_to_keys, keys, bufsize>>

\* the points of all ranks in rank order
AllPoints ==
    LET RECURSIVE Cat(_)
        Cat(r) == IF r >= size THEN <<>> ELSE points[r] \o Cat(r + 1)
    IN  Cat(0)

\* the ways to cut a sequence of length n into sz consecutive pieces: the
\* non-decreasing cut positions c[0..sz], c[0] = 0, c[sz] = n
Cuts(n, sz) ==
    {c \in [0..sz -> 0..n] : c[0] = 0 /\ c[sz] = n /\ \A i \in 0..(sz - 1) : c[i] <= c[i + 1]}

\* hyksort (external): on return every rank holds a consecutive piece of the
\* globally sorted sequence; where the pieces are cut is not determined.
Hyksort(at, next) ==
    /\ \A r \in Ranks : pc[r] = at
    /\ \E c \in Cuts(Len(AllPoints), size) :
          LET sorted == SortPoints(AllPoints)
          IN  points' = [r \in Ranks |-> SubSeq(sorted, c[r] + 1, c[r + 1])]
    /\ pc' = [r \in Ranks |-> next]
    /\ UNCHANGED <<const, tree, seeds, blocktree, chan, points_to_keys, keys, bufsize>>

\* step 2.i of unbalanced_tree and of balanced_tree
Hyksort1 == Hyksort("sort1", "local_tree")

\* steps 2.ii to 5 (first half): the keys of the local points are linearized
\* and completed, and the seeds are found (lines 313-323 and 365-375)
LocalTree(r) ==
    LET Found(completed, found) ==
            IF found = PanicKeys
            THEN pc' = [pc EXCEPT ![r] = "panicked"] /\ UNCHANGED <<tree, seeds>>
            ELSE /\ pc' = [pc EXCEPT ![r] = "blocktree_send"]
                 /\ tree' = [tree EXCEPT ![r] = completed]
                 /\ seeds' = [seeds EXCEPT ![r] = found]
        Completed(completed) == Found(completed, find_seeds(completed))
    IN  /\ pc[r] = "local_tree"
        /\ Completed(complete(linearize(PointKeys(points[r]))))
        /\ UNCHANGED <<const, points, blocktree, chan, points_to_keys, keys, bufsize>>

Message(from, kind, body) == [from |-> from, kind |-> kind, body |-> body]

\* complete_blocktree up to the send (lines 86-113)
BlocktreeSend(r) ==
    LET Send(extended) ==
            IF extended = PanicKeys
            THEN /\ pc' = [pc EXCEPT ![r] = "panicked"]
                 /\ UNCHANGED <<seeds, chan>>
            ELSE /\ pc' = [pc EXCEPT ![r] = "blocktree_receive"]
                 /\ seeds' = [seeds EXCEPT ![r] = extended]
                 /\ IF r > 0
                    THEN chan' = [chan EXCEPT ![r - 1] =
                                    Append(@, Message(r, "seed", KeyMin(extended)))]
                    ELSE UNCHANGED chan
    IN  /\ pc[r] = "blocktree_send"
        /\ Send(ExtendSeeds(seeds[r], r))
        /\ UNCHANGED <<const, points, tree, blocktree, points_to_keys, keys, bufsize>>

\* complete_blocktree from the receive on (lines 115-139)
BlocktreeReceive(r) ==
    LET Completed(received, completed) ==
            /\ seeds' = [seeds EXCEPT ![r] = received]
            /\ IF completed = PanicKeys
               THEN pc' = [pc EXCEPT ![r] = "panicked"] /\ UNCHANGED blocktree
               ELSE pc' = [pc EXCEPT ![r] = "transfer_send"]
                      /\ blocktree' = [blocktree EXCEPT ![r] = completed]
        Received(received) == Completed(received, CompleteSeeds(received, r))
    IN  /\ pc[r] = "blocktree_receive"
        /\ r < size - 1 => chan[r] # <<>>
        /\ Received(IF r < size - 1 THEN Append(seeds[r], Head(chan[r]).body)
                    ELSE seeds[r])
        /\ chan' = [chan EXCEPT ![r] = IF r < size - 1 THEN Tail(@) ELSE @]
        /\ UNCHANGED <<const, points, tree, points_to_keys, keys, bufsize>>

\* the points a rank sends to its predecessor, and those it keeps
Below(ps, min_seed) == SelectSeq(ps, LAMBDA q : KeyLess(q.key, min_seed))

\* the points above the minimum seed only: a point with the key of the minimum
\* seed is neither sent nor kept
NotBelow_above_only(ps, min_seed) == SelectSeq(ps, LAMBDA q : KeyLess(min_seed, q.key))

NotBelow(ps, min_seed) == SelectSeq(ps, LAMBDA q : ~KeyLess(q.key, min_seed))

\* TransferSend with the two sends exchanged: the points, then the count
TransferSend_points_first(r) ==
    LET Payload(msg) ==
            chan' = [chan EXCEPT ![r - 1] =
                        @ \o <<Message(r, "points", msg), Message(r, "count", Len(msg))>>]
        Send(min_seed) ==
            IF min_seed = PanicKey
            THEN pc' = [pc EXCEPT ![r] = "panicked"] /\ UNCHANGED chan
            ELSE /\ pc' = [pc EXCEPT ![r] = "transfer_receive"]
                 /\ IF r > 0 THEN Payload(Below(points[r], min_seed))
                    ELSE UNCHANGED chan
    IN  /\ pc[r] = "transfer_send"
        /\ Send(MinSeed(points[r], seeds[r], r))
        /\ UNCHANGED <<const, points, tree, seeds, blocktree, points_to_keys, keys, bufsize>>

\* transfer_points_to_blocktree up to the sends (lines 244-267): the count,
\* then the points
TransferSend(r) ==
    LET Payload(msg) ==
            chan' = [chan EXCEPT ![r - 1] =
                        @ \o <<Message(r, "count", Len(msg)), Message(r, "points", msg)>>]
        Send(min_seed) ==
            IF min_seed = PanicKey
            THEN pc' = [pc EXCEPT ![r] = "panicked"] /\ UNCHANGED chan
            ELSE /\ pc' = [pc EXCEPT ![r] = "transfer_receive"]
                 /\ IF r > 0 THEN Payload(Below(points[r], min_seed))
                    ELSE UNCHANGED chan
    IN  /\ pc[r] = "transfer_send"
        /\ Send(MinSeed(points[r], seeds[r], r))
        /\ UNCHANGED <<const, points, tree, seeds, blocktree, points_to_keys, keys, bufsize>>

\* transfer_points_to_blocktree from the receives on (lines 269-289): the count
\* sizes the buffer the payload is received into, the local points below the
\* minimum seed are dropped and the rest is sorted
TransferReceive(r) ==
    LET Keep(min_seed, buffer) ==
            points' = [points EXCEPT ![r] =
                          SortPoints(buffer \o NotBelow(points[r], min_seed))]
    IN  /\ pc[r] = "transfer_receive"
        /\ r < size - 1 => Len(chan[r]) >= 2
        /\ IF r < size - 1
           THEN /\ bufsize' = [bufsize EXCEPT ![r] = chan[r][1].body]
                /\ Keep(MinSeed(points[r], seeds[r], r),
                        SubSeq(chan[r][2].body, 1, chan[r][1].body))
                /\ chan' = [chan EXCEPT ![r] = Tail(Tail(@))]
           ELSE /\ Keep(MinSeed(points[r], seeds[r], r), <<>>)
                /\ UNCHANGED <<bufsize, chan>>
        /\ pc' = [pc EXCEPT ![r] = "split"]
        /\ UNCHANGED <<const, tree, seeds, blocktree, points_to_keys, keys>>

\* step 6: split_blocks on the keys of the local points and the block tree;
\* the unbalanced tree then returns to DistributedTree::new, which keeps the
\* keys of the points (lines 66-74)
SplitBlocks(r) ==
    LET Split(map) ==
            IF map = PanicMap
            THEN pc' = [pc EXCEPT ![r] = "panicked"] /\ UNCHANGED <<points_to_keys, keys>>
            ELSE /\ points_to_keys' = [points_to_keys EXCEPT ![r] = map]
                 /\ IF balanced
                    THEN pc' = [pc EXCEPT ![r] = "balance"] /\ UNCHANGED keys
                    ELSE /\ pc' = [pc EXCEPT ![r] = "done"]
                         /\ keys' = [keys EXCEPT ![r] = PointKeys(points[r])]
    IN  /\ pc[r] = "split"
        /\ Split(split_blocks(PointKeys(points[r]), blocktree[r]))
        /\ UNCHANGED <<const, points, tree, seeds, blocktree, chan, bufsize>>

\* the values of the map, one for each entry (HashMap::into_iter)
MapValueSeq(map) ==
    LET RECURSIVE Build(_)
        Build(m) == IF m = {} THEN <<>>
                    ELSE LET e == CHOOSE x \in m : \A y \in m : KeyLeq(x[1], y[1])
                         IN  <<e[2]>> \o Build(m \ {e})
    IN  Build(map)

\* steps 7.i and 7.ii of balanced_tree (lines 392-414).  The tree returned by
\* linearized.balance() is dropped by the caller, so the nodes the leaves are
\* assigned to are the keys of `linearized`, the blocks of the unbalanced tree.
Balance(r) ==
    LET Mapped(map, q) == Contains(MapKeys(map), q.key)
        Assign(points_to_balanced) ==
            IF \E i \in 1..Len(points[r]) : ~Mapped(points_to_balanced, points[r][i])
            THEN pc' = [pc EXCEPT ![r] = "panicked"] /\ UNCHANGED points
            ELSE /\ points' = [points EXCEPT ![r] =
                                 [i \in 1..Len(points[r]) |->
                                     Point(points[r][i].coordinate, points[r][i].global_idx,
                                           MapGet(points_to_balanced, points[r][i].key))]]
                 /\ pc' = [pc EXCEPT ![r] = "sort2"]
    IN  /\ pc[r] = "balance"
        /\ Assign(assign_nodes_to_leaves(PointKeys(points[r]),
                                         MapValueSeq(points_to_keys[r])))
        /\ UNCHANGED <<const, tree, seeds, blocktree, chan, points_to_keys, keys, bufsize>>

\* step 8
Hyksort2 == Hyksort("sort2", "linearize_balanced")

\* steps 9 and 10 (lines 420-430); the balanced tree then returns to
\* DistributedTree::new, which keeps the keys of the points (lines 55-63)
LinearizeBalanced(r) ==
    LET Assign(linear) ==
            /\ tree' = [tree EXCEPT ![r] = linear]
            /\ points_to_keys' = [points_to_keys EXCEPT ![r] =
                                    assign_nodes_to_leaves(PointKeys(points[r]), linear)]
    IN  /\ pc[r] = "linearize_balanced"
        /\ Assign(linearize(PointKeys(points[r])))
        /\ keys' = [keys EXCEPT ![r] = PointKeys(points[r])]
        /\ pc' = [pc EXCEPT ![r] = "done"]
        /\ UNCHANGED <<const, points, seeds, blocktree, chan, bufsize>>

Next ==
    \/ \E r \in Ranks : Encode(r)
    \/ Hyksort1
    \/ \E r \in Ranks : LocalTree(r)
    \/ \E r \in Ranks : BlocktreeSend(r)
    \/ \E r \in Ranks : BlocktreeReceive(r)
    \/ \E r \in Ranks : TransferSend(r)
    \/ \E r \in Ranks : TransferReceive(r)
    \/ \E r \in Ranks : SplitBlocks(r)
    \/ \E r \in Ranks : Balance(r)
    \/ Hyksort2
    \/ \E r \in Ranks : LinearizeBalanced(r)

Spec == Init /\ [][Next]_vars

\* Inputs for the balanced tree: three points in the cells (0,2,0), (0,3,0)
\* and (1,3,0) of one cell of level 15, a point in the cell (0,4,0) next to
\* it, and a point in the cell (65535,0,65535); the bounding cube of an input
\* with the last point and a point with x = 0 is the domain.
BalanceSites == {<<0, 4, 0>>, <<0, 6, 0>>, <<2, 6, 0>>, <<0, 8, 0>>, <<131071, 0, 131071>>}

BalanceInputs ==
    {sq \in [1..Cardinality(BalanceSites) -> BalanceSites] :
        /\ \A i \in 1..(Len(sq) - 1) : SiteLeq(sq[i], sq[i + 1])
        /\ \E i \in 1..Len(sq) : sq[i][1] = 0
        /\ \E i \in 1..Len(sq) : sq[i] = <<131071, 0, 131071>>
        /\ Cardinality(Range(sq)) >= Cardinality(BalanceSites) - 1}

\* DistributedTree::new with balanced = true
InitBalanced ==
    /\ overflow_checks \in BOOLEAN
    /\ size \in 1..MaxRanks
    /\ balanced = TRUE
    /\ pc = [r \in Ranks |-> "encode"]
    /\ input \in BalanceInputs
    /\ points = [r \in Ranks |-> LocalInput(input, r, size)]
    /\ tree = [r \in Ranks |-> <<>>]
    /\ seeds = [r \in Ranks |-> <<>>]
    /\ blocktree = [r \in Ranks |-> <<>>]
    /\ chan = [r \in Ranks |-> <<>>]
    /\ points_to_keys = [r \in Ranks |-> {}]
    /\ keys = [r \in Ranks |-> <<>>]
    /\ bufsize = [r \in Ranks |-> 0]
    /\ fn = NoFn

SpecBalanced == InitBalanced /\ [][Next]_vars

\* Inputs for a communicator with a rank that has a predecessor and a
\* successor: a point at every site, and a second one at one of the two
\* least sites
ExchangeInputs ==
    {sq \in [1..(Cardinality(Sites) + 1) -> Sites] :
        /\ \A i \in 1..(Len(sq) - 1) : SiteLeq(sq[i], sq[i + 1])
        /\ Range(sq) = Sites
        /\ sq[1] = sq[2] \/ sq[2] = sq[3]}

\* DistributedTree::new on one rank more than MaxRanks
InitExchange ==
    /\ overflow_checks \in BOOLEAN
    /\ size = MaxRanks + 1
    /\ balanced \in BOOLEAN
    /\ pc = [r \in Ranks |-> "encode"]
    /\ input \in ExchangeInputs
    /\ points = [r \in Ranks |-> LocalInput(input, r, size)]
    /\ tree = [r \in Ranks |-> <<>>]
    /\ seeds = [r \in Ranks |-> <<>>]
    /\ blocktree = [r \in Ranks |-> <<>>]
    /\ chan = [r \in Ranks |-> <<>>]
    /\ points_to_keys = [r \in Ranks |-> {}]
    /\ keys = [r \in Ranks |-> <<>>]
    /\ bufsize = [r \in Ranks |-> 0]
    /\ fn = NoFn

SpecExchange == InitExchange /\ [][Next]_vars

-----------------------------------------------------------------------------
(* Calls of single functions.  The builder is idle; fn holds the call: its *)
(* arguments at first, then what the function returned.                    *)

\* the coordinates of the anchors encode_anchor is applied to
Coordinates == {0, 1, 254, 256, 21845, 43690, 65535}

Levels == 0..DEEPEST_LEVEL

InitEncoding ==
    /\ PipelineIdle
    /\ overflow_checks \in BOOLEAN
    /\ fn \in [op : {"encode_anchor"},
               anchor : Coordinates \X Coordinates \X Coordinates,
               level : Levels]

EncodeAnchor ==
    /\ fn.op = "encode_anchor"
    /\ fn' = [op |-> "decode_key", anchor |-> fn.anchor, level |-> fn.level,
              morton |-> encode_anchor(fn.anchor, fn.level)]
    /\ UNCHANGED <<overflow_checks, size, balanced, input, pc, points, tree, seeds,
                   blocktree, chan, points_to_keys, keys, bufsize>>

DecodeKey ==
    /\ fn.op = "decode_key"
    /\ fn' = [op |-> "decoded", anchor |-> fn.anchor, level |-> fn.level,
              morton |-> fn.morton, decoded |-> decode_key(fn.morton),
              found_level |-> find_level(fn.morton)]
    /\ UNCHANGED <<overflow_checks, size, balanced, input, pc, points, tree, seeds,
                   blocktree, chan, points_to_keys, keys, bufsize>>

NextEncoding == EncodeAnchor \/ DecodeKey

SpecEncoding == InitEncoding /\ [][NextEncoding]_vars

\* the well-formed key of a level with an anchor on the grid of that level
KeyAt(anchor, lvl) == MortonKey(anchor, encode_anchor(anchor, lvl))

\* every key of the levels 0..MaxGridLevel
MaxGridLevel == 1

GridKeys ==
    UNION { {KeyAt(<<x * Pow2(DEEPEST_LEVEL - l), y * Pow2(DEEPEST_LEVEL - l),
                     z * Pow2(DEEPEST_LEVEL - l)>>, l)
               : x, y, z \in 0..(Pow2(l) - 1)}
            : l \in 0..MaxGridLevel }

\* keys of the two deepest levels, near both corners of the domain
DeepKeys ==
    {KeyAt(<<0, 0, 0>>, DEEPEST_LEVEL), KeyAt(<<1, 0, 0>>, DEEPEST_LEVEL),
     KeyAt(<<2, 0, 0>>, DEEPEST_LEVEL), KeyAt(<<3, 1, 0>>, DEEPEST_LEVEL),
     KeyAt(<<0, 0, 0>>, DEEPEST_LEVEL - 1), KeyAt(<<2, 0, 0>>, DEEPEST_LEVEL - 1),
     KeyAt(<<65534, 65535, 65535>>, DEEPEST_LEVEL),
     KeyAt(<<65535, 65535, 65535>>, DEEPEST_LEVEL)}

\* keys of the levels between
MidKeys ==
    {KeyAt(<<16384, 0, 0>>, 2), KeyAt(<<0, 16384, 16384>>, 2),
     KeyAt(<<32768, 16384, 0>>, 2), KeyAt(<<49152, 49152, 49152>>, 2),
     KeyAt(<<0, 0, 0>>, 8), KeyAt(<<256, 512, 65280>>, 8), KeyAt(<<128, 256, 384>>, 9)}

RegionKeys == GridKeys \cup MidKeys \cup DeepKeys

InitRegion ==
    /\ PipelineIdle
    /\ overflow_checks \in BOOLEAN
    /\ fn \in {[op |-> "complete_region", a |-> p[1], b |-> p[2]]
                 : p \in {q \in RegionKeys \X RegionKeys : KeyLess(q[1], q[2])}}

\* what a call of complete_region leaves: the region, or that it did not return
Returned(which, a, b, region) ==
    IF region = PanicKeys
    THEN [op |-> "no_return", of |-> which, a |-> a, b |-> b]
    ELSE [op |-> "returned", of |-> which, a |-> a, b |-> b, region |-> region]

CompleteRegion ==
    /\ fn.op = "complete_region"
    /\ fn' = Returned("Tree", fn.a, fn.b, complete_region(fn.a, fn.b))
    /\ UNCHANGED <<overflow_checks, size, balanced, input, pc, points, tree, seeds,
                   blocktree, chan, points_to_keys, keys, bufsize>>

LinearCompleteRegion ==
    /\ fn.op = "complete_region"
    /\ fn' = Returned("LinearTree", fn.a, fn.b, LinearTree_complete_region(fn.a, fn.b))
    /\ UNCHANGED <<overflow_checks, size, balanced, input, pc, points, tree, seeds,
                   blocktree, chan, points_to_keys, keys, bufsize>>

NextRegion == CompleteRegion \/ LinearCompleteRegion

SpecRegion == InitRegion /\ [][NextRegion]_vars

\* the directions find_key_in_direction is given: a step of at most one box
\* on every axis
Directions == {-1, 0, 1} \X {-1, 0, 1} \X {-1, 0, 1}

\* the calls of the methods of a key
InitKeys ==
    /\ PipelineIdle
    /\ overflow_checks \in BOOLEAN
    /\ fn \in {[op |-> o, k |-> k]
                  : o \in {"children", "finest_last_child", "key_algebra"}, k \in RegionKeys}
              \cup {[op |-> "finest_ancestor", a |-> a, b |-> b] : a, b \in RegionKeys}
              \cup {[op |-> "find_key_in_direction", k |-> k, direction |-> d]
                       : k \in RegionKeys, d \in Directions}

\* the i-th key of a list of keys, the panic value of a call that did not return
Nth(ks, i) == IF ks = PanicKeys THEN PanicKey ELSE ks[i]

\* k.children(), then c.parent() and c.siblings() of every child c
Children ==
    LET Of(cs) == [op |-> "children_of", k |-> fn.k, children |-> cs,
                   parents |-> [i \in 1..Len(cs) |-> parent(Nth(cs, i))],
                   siblings |-> [i \in 1..Len(cs) |-> siblings(Nth(cs, i))]]
    IN  /\ fn.op = "children"
        /\ fn' = Of(children(fn.k))
        /\ UNCHANGED <<overflow_checks, size, balanced, input, pc, points, tree, seeds,
                       blocktree, chan, points_to_keys, keys, bufsize>>

FinestLastChild ==
    /\ fn.op = "finest_last_child"
    /\ fn' = [op |-> "finest_last_child_of", k |-> fn.k, last |-> finest_last_child(fn.k)]
    /\ UNCHANGED <<overflow_checks, size, balanced, input, pc, points, tree, seeds,
                   blocktree, chan, points_to_keys, keys, bufsize>>

\* a.finest_ancestor(b) and b.finest_ancestor(a)
FinestAncestor ==
    /\ fn.op = "finest_ancestor"
    /\ fn' = [op |-> "finest_ancestor_of", a |-> fn.a, b |-> fn.b,
              of_a |-> finest_ancestor(fn.a, fn.b), of_b |-> finest_ancestor(fn.b, fn.a)]
    /\ UNCHANGED <<overflow_checks, size, balanced, input, pc, points, tree, seeds,
                   blocktree, chan, points_to_keys, keys, bufsize>>

FindKeyInDirection ==
    /\ fn.op = "find_key_in_direction"
    /\ fn' = [op |-> "found_key", k |-> fn.k, direction |-> fn.direction,
              found |-> find_key_in_direction(fn.k, fn.direction)]
    /\ UNCHANGED <<overflow_checks, size, balanced, input, pc, points, tree, seeds,
                   blocktree, chan, points_to_keys, keys, bufsize>>

\* the keys a list or a set of keys holds, none for a call that did not return
Given(method, ks) == {<<method, c>> : c \in ks \ {PanicKey}}

\* the keys the methods of k return, each with the method that returned it:
\* parent and siblings of a key below the root, children and first_child of
\* a key above the deepest level
KeyAlgebra ==
    LET k == fn.k
        Upward == IF level(k) > 0
                 THEN Given("parent", {parent(k)}) \cup Given("siblings", Range(siblings(k)))
                 ELSE {}
        Downward == IF level(k) < DEEPEST_LEVEL
                 THEN Given("children", Range(children(k)))
                        \cup Given("first_child", {first_child(k)})
                 ELSE {}
        Others == UNION {Given("finest_ancestor", {finest_ancestor(k, o)}) : o \in DeepKeys}
        Moved == UNION {Given("find_key_in_direction", Range(find_key_in_direction(k, d)))
                          : d \in Directions}
    IN  /\ fn.op = "key_algebra"
        /\ fn' = [op |-> "key_algebra_of", k |-> k,
                  returned |-> Upward \cup Downward \cup Others \cup Moved
                                 \cup Given("finest_first_child", {finest_first_child(k)})
                                 \cup Given("finest_last_child", {finest_last_child(k)})
                                 \cup Given("ancestors", ancestors(k))]
        /\ UNCHANGED <<overflow_checks, size, balanced, input, pc, points, tree, seeds,
                       blocktree, chan, points_to_keys, keys, bufsize>>

NextKeys == Children \/ FinestLastChild \/ FinestAncestor \/ FindKeyInDirection \/ KeyAlgebra

SpecKeys == InitKeys /\ [][NextKeys]_vars

\* the keys the lists given to linearize are drawn from: a chain of ancestors
\* from the root down to a deepest-level key, and two keys outside the chain
LinearizeKeys ==
    {ROOT, KeyAt(<<0, 0, 0>>, 1), KeyAt(<<0, 0, 0>>, 2), KeyAt(<<0, 0, 0>>, DEEPEST_LEVEL),
     KeyAt(<<32768, 0, 0>>, 1), KeyAt(<<65535, 65535, 65535>>, DEEPEST_LEVEL)}

\* the longest list given to linearize
MaxKeys == 3

InitLinearize ==
    /\ PipelineIdle
    /\ overflow_checks \in BOOLEAN
    /\ fn \in {[op |-> "linearize", keys |-> sq]
                 : sq \in UNION {[1..n -> LinearizeKeys] : n \in 1..MaxKeys}}

\* tree.linearize() of a tree with the keys of the call
Linearize ==
    /\ fn.op = "linearize"
    /\ fn' = [op |-> "linearized", keys |-> fn.keys, linear |-> linearize(fn.keys)]
    /\ UNCHANGED <<overflow_checks, size, balanced, input, pc, points, tree, seeds,
                   blocktree, chan, points_to_keys, keys, bufsize>>

\* tree.linearize() once more, of the tree it left
LinearizeAgain ==
    /\ fn.op = "linearized"
    /\ fn' = [op |-> "relinearized", keys |-> fn.keys, linear |-> fn.linear,
              again |-> linearize(fn.linear)]
    /\ UNCHANGED <<overflow_checks, size, balanced, input, pc, points, tree, seeds,
                   blocktree, chan, points_to_keys, keys, bufsize>>

NextLinearize == Linearize \/ LinearizeAgain

SpecLinearize == InitLinearize /\ [][NextLinearize]_vars

\* the key lists given to complete: one key, or two keys
InitComplete ==
    /\ PipelineIdle
    /\ overflow_checks \in BOOLEAN
    /\ fn \in {[op |-> "complete", keys |-> sq]
                 : sq \in [1..1 -> RegionKeys] \cup [1..2 -> LinearizeKeys \cup DeepKeys]}

\* tree.complete() of a tree with the keys of the call; PanicKeys is left for
\* a call that does not return
Complete ==
    /\ fn.op = "complete"
    /\ fn' = [op |-> "completed", keys |-> fn.keys, completed |-> complete(fn.keys)]
    /\ UNCHANGED <<overflow_checks, size, balanced, input, pc, points, tree, seeds,
                   blocktree, chan, points_to_keys, keys, bufsize>>

\* tree.complete() once more, of the tree it left
CompleteAgain ==
    /\ fn.op = "completed"
    /\ fn.completed # PanicKeys
    /\ fn' = [op |-> "recompleted", keys |-> fn.keys, completed |-> fn.completed,
              again |-> complete(fn.completed)]
    /\ UNCHANGED <<overflow_checks, size, balanced, input, pc, points, tree, seeds,
                   blocktree, chan, points_to_keys, keys, bufsize>>

NextComplete == Complete \/ CompleteAgain

SpecComplete == InitComplete /\ [][NextComplete]_vars

\* the leaves given to split_blocks: the keys of at most MaxPoints points, in
\* order; points of one cell share a key
LeafKeys ==
    {KeyAt(<<0, 0, 0>>, DEEPEST_LEVEL), KeyAt(<<1, 0, 0>>, DEEPEST_LEVEL),
     KeyAt(<<0, 1, 0>>, DEEPEST_LEVEL), KeyAt(<<2, 0, 0>>, DEEPEST_LEVEL),
     KeyAt(<<65535, 65535, 65535>>, DEEPEST_LEVEL)}

LeafLists ==
    UNION { {sq \in [1..n -> LeafKeys] : \A i \in 1..(n - 1) : KeyLeq(sq[i], sq[i + 1])}
            : n \in 0..MaxPoints }

\* the block lists given to split_blocks: the root, the children of the root,
\* blocks of the level above the deepest, a block of the deepest level, and
\* a block with its parent
BlockLists ==
    {<<ROOT>>, children(ROOT), <<ROOT, KeyAt(<<0, 0, 0>>, 1)>>,
     <<KeyAt(<<0, 0, 0>>, DEEPEST_LEVEL - 1), KeyAt(<<2, 0, 0>>, DEEPEST_LEVEL - 1)>>,
     <<KeyAt(<<0, 0, 0>>, DEEPEST_LEVEL), KeyAt(<<65534, 65534, 65534>>, DEEPEST_LEVEL - 1)>>}

InitSplit ==
    /\ PipelineIdle
    /\ overflow_checks \in BOOLEAN
    /\ fn \in {[op |-> "split_blocks", leaves |-> l, blocktree |-> b, round |-> 0, over |-> {}]
                 : l \in LeafLists, b \in BlockLists}

\* one round of the loop of split_blocks (lines 175-208): the blocks with
\* more than NCRIT entries are replaced by their children; if there is none
\* the loop is left and the leaves are assigned to the blocks (line 212)
SplitRound ==
    LET Replace(under, over, new_blocktree) ==
            IF over = {}
            THEN fn' = [op |-> "split", leaves |-> fn.leaves, blocktree |-> under,
                        round |-> fn.round + 1, over |-> over,
                        map |-> assign_nodes_to_leaves(fn.leaves, under)]
            ELSE IF new_blocktree = PanicKeys
            THEN fn' = [op |-> "panicked", leaves |-> fn.leaves, blocktree |-> fn.blocktree,
                        round |-> fn.round + 1, over |-> over]
            ELSE fn' = [fn EXCEPT !.blocktree = new_blocktree, !.round = @ + 1, !.over = over]
        Sort(under, over) ==
            Replace(SetToSeq(under), over,
                    PanicCat(SetToSeq(under), ChildrenOfAll(SetToSeq(over))))
        Round(counts) ==
            Sort({c[1] : c \in {e \in counts : e[2] <= NCRIT}},
                 {c[1] : c \in {e \in counts : e[2] > NCRIT}})
    IN  /\ fn.op = "split_blocks"
        /\ fn.round < WalkFuel
        /\ Round(blocks_to_npoints(fn.leaves, fn.blocktree))
        /\ UNCHANGED <<overflow_checks, size, balanced, input, pc, points, tree, seeds,
                       blocktree, chan, points_to_keys, keys, bufsize>>

NextSplit == SplitRound

SpecSplit == InitSplit /\ [][NextSplit]_vars

-----------------------------------------------------------------------------
(* CompleteLinearTree::compute_interior_weights (serial_octree.rs 166-202,  *)
(* the same text in octree.rs 162-198).  fn holds the arguments, the index  *)
(* i of the key the for loop is at, the loop's weight, the number of        *)
(* iterations the while loop has made for this key, and weights_map as a    *)
(* set of pairs.  Weights are whole numbers, which f64 adds exactly.        *)

\* the key lists of the calls: no key, the root alone, the children of the
\* root, one child of the root and its children, the children of the root
\* with the first replaced by its children, and one deepest-level key
WeightTrees ==
    {<<>>, <<ROOT>>, children(ROOT), <<KeyAt(<<0, 0, 0>>, 1)>>,
     children(KeyAt(<<0, 0, 0>>, 1)),
     children(KeyAt(<<0, 0, 0>>, 1)) \o Tail(children(ROOT)),
     <<KeyAt(<<0, 0, 0>>, DEEPEST_LEVEL)>>}

\* the greatest weight of a key in a call
MaxWeight == 2

InitWeights ==
    /\ PipelineIdle
    /\ overflow_checks \in BOOLEAN
    /\ fn \in {[op |-> "compute_interior_weights", keys |-> ks, root |-> root,
                weights |-> [j \in 1..(Len(ks) + more) |-> w], i |-> 0, weight |-> 0, steps |-> 0,
                weights_map |-> {}]
                 : ks \in WeightTrees,
                   root \in {ROOT, KeyAt(<<0, 0, 0>>, 1), KeyAt(<<0, 0, 0>>, DEEPEST_LEVEL)},
                   more \in 0..1, w \in 0..MaxWeight}

\* HashMap::insert: the entry of the key is replaced
MapInsert(map, k, v) == {e \in map : ~KeyEq(e[1], k)} \cup {<<k, v>>}

\* the for loop of line 185 moves to the key of index i: the key is inserted
\* with its weight (line 186) and the while loop is entered; after the last
\* key the map is returned (line 200)
ForLoop(i) ==
    IF i > Len(fn.keys) THEN fn' = [fn EXCEPT !.op = "returned", !.i = i]
    ELSE fn' = [fn EXCEPT !.op = "while", !.i = i, !.weight = fn.weights[i], !.steps = 0,
                          !.weights_map = MapInsert(@, fn.keys[i], fn.weights[i])]

\* the assertions of lines 171-180, with the unwrap of first() and last(),
\* and the entry of the for loop
AssertWeights ==
    /\ fn.op = "compute_interior_weights"
    /\ IF \/ Len(fn.keys) # Len(fn.weights)
          \/ fn.keys = <<>>
          \/ ~(is_ancestor(fn.root, fn.keys[1]) /\ is_ancestor(fn.root, fn.keys[Len(fn.keys)]))
       THEN fn' = [fn EXCEPT !.op = "panicked"]
       ELSE ForLoop(1)
    /\ UNCHANGED <<overflow_checks, size, balanced, input, pc, points, tree, seeds,
                   blocktree, chan, points_to_keys, keys, bufsize>>

\* one evaluation of the condition of the while loop of line 188 and, if it
\* holds, of its body (lines 189-196): `key` is the variable of the for loop
\* and the body does not assign it.  The model follows one key for at most
\* DEEPEST_LEVEL + 1 iterations.
WalkStep ==
    LET key == fn.keys[fn.i]
        Body(p) ==
            IF p = PanicKey THEN fn' = [fn EXCEPT !.op = "panicked"]
            ELSE IF \E e \in fn.weights_map : KeyEq(e[1], p)
            THEN fn' = [fn EXCEPT !.weights_map = MapInsert(@, p, MapGet(@, p) + fn.weight),
                                  !.weight = MapGet(fn.weights_map, p) + fn.weight,
                                  !.steps = @ + 1]
            ELSE fn' = [fn EXCEPT !.weights_map = MapInsert(@, p, fn.weight),
                                  !.steps = @ + 1]
    IN  /\ fn.op = "while"
        /\ fn.steps <= DEEPEST_LEVEL
        /\ IF KeyEq(key, fn.root) THEN ForLoop(fn.i + 1) ELSE Body(parent(key))
        /\ UNCHANGED <<overflow_checks, size, balanced, input, pc, points, tree, seeds,
                       blocktree, chan, points_to_keys, keys, bufsize>>

NextWeights == AssertWeights \/ WalkStep

SpecWeights == InitWeights /\ [][NextWeights]_vars

-----------------------------------------------------------------------------
(* DistributedTree::read_hdf5.  pc[r] is the position of rank r in the      *)
(* function and chan[r] holds what collectives have sent to rank r and it   *)
(* has not received yet.  fn holds the file, and for every rank the         *)
(* collectives it has called and its local variables.                       *)

root_rank == 0

\* the largest number of keys of one rank in a stored tree
MaxFileKeys == 2

\* counts[1] + ... + counts[n]
CountSum(counts, n) ==
    LET RECURSIVE Sum(_)
        Sum(i) == IF i = 0 THEN 0 ELSE counts[i] + Sum(i - 1)
    IN  Sum(n)

\* write_hdf5: the displacement of a rank is the sum of the counts before it
Displs(counts) == [i \in 1..Len(counts) |-> CountSum(counts, i - 1)]

\* the file write_hdf5 leaves for a tree on Len(key_counts) ranks: the keys of
\* the ranks one after the other, and for every rank one point more than keys
StoredFile(key_counts, is_balanced) ==
    LET point_counts == [i \in 1..Len(key_counts) |-> key_counts[i] + 1]
        nkeys == CountSum(key_counts, Len(key_counts))
        npoints == nkeys + Len(key_counts)
    IN  [comm_size |-> Len(key_counts),
         balanced |-> is_balanced,
         key_counts |-> key_counts,
         key_displs |-> Displs(key_counts),
         keys |-> [i \in 1..nkeys |-> from_anchor(<<i - 1, 0, 0>>)],
         point_counts |-> point_counts,
         point_displs |-> Displs(point_counts),
         points |-> [i \in 1..npoints |->
                        Point(<<i - 1, 0, 0>>, i - 1, from_point(<<i - 1, 0, 0>>))],
         domain |-> [origin |-> <<0, 0, 0>>, diameter |-> <<1, 1, 1>>]]

Files ==
    UNION { {StoredFile(kc, b) : kc \in [1..n -> 1..MaxFileKeys], b \in BOOLEAN}
            : n \in 1..(MaxRanks + 1) }

\* the locals of read_hdf5 before anything is received (lines 445-446, 479-484)
DefaultLocals ==
    [nlocal_keys |-> 0, nlocal_points |-> 0, local_keys |-> <<>>, local_points |-> <<>>,
     balanced |-> FALSE, global_domain |-> [origin |-> <<0, 0, 0>>, diameter |-> <<0, 0, 0>>]]

InitRead ==
    /\ overflow_checks \in BOOLEAN
    /\ size \in 1..(MaxRanks + 1)
    /\ balanced = FALSE
    /\ input = <<>>
    /\ pc = [r \in Ranks |-> "read_hdf5"]
    /\ points = [r \in Ranks |-> <<>>]
    /\ tree = [r \in Ranks |-> <<>>]
    /\ seeds = [r \in Ranks |-> <<>>]
    /\ blocktree = [r \in Ranks |-> <<>>]
    /\ chan = [r \in Ranks |-> <<>>]
    /\ points_to_keys = [r \in Ranks |-> {}]
    /\ keys = [r \in Ranks |-> <<>>]
    /\ bufsize = [r \in Ranks |-> 0]
    /\ fn \in {[op |-> "read_hdf5", file |-> f, calls |-> [r \in Ranks |-> <<>>],
                locals |-> [r \in Ranks |-> DefaultLocals]] : f \in Files}

CollectiveCall(method, buffer) == [method |-> method, buffer |-> buffer]

\* the collectives of the root in program order (lines 470, 471, 554, 555,
\* 563 and 566)
RootCalls ==
    <<CollectiveCall("scatter_into_root", "nlocal_keys"),
      CollectiveCall("scatter_into_root", "nlocal_points"),
      CollectiveCall("scatter_varcount_into_root", "local_keys"),
      CollectiveCall("scatter_varcount_into_root", "local_points"),
      CollectiveCall("broadcast_into", "balanced"),
      CollectiveCall("broadcast_into", "global_domain")>>

\* the collectives of another rank with the broadcast of `balanced` called
\* before the two variable-count scatters
OtherCalls_broadcast_first ==
    <<CollectiveCall("scatter_into", "nlocal_keys"),
      CollectiveCall("scatter_into", "nlocal_points"),
      CollectiveCall("broadcast_into", "balanced"),
      CollectiveCall("scatter_varcount_into", "local_keys"),
      CollectiveCall("scatter_varcount_into", "local_points"),
      CollectiveCall("broadcast_into", "global_domain")>>

\* the collectives of every other rank in program order (lines 474, 475, 558,
\* 559, 563 and 566)
OtherCalls ==
    <<CollectiveCall("scatter_into", "nlocal_keys"),
      CollectiveCall("scatter_into", "nlocal_points"),
      CollectiveCall("scatter_varcount_into", "local_keys"),
      CollectiveCall("scatter_varcount_into", "local_points"),
      CollectiveCall("broadcast_into", "balanced"),
      CollectiveCall("broadcast_into", "global_domain")>>

\* the collective operation a method takes part in
Collective(method) ==
    CASE method \in {"scatter_into_root", "scatter_into"} -> "scatter"
      [] method \in {"scatter_varcount_into_root", "scatter_varcount_into"} -> "scatter_varcount"
      [] method = "broadcast_into" -> "broadcast"

\* what the root sends rank s for a buffer: the element or the partition of
\* rank s of the data set, or the value broadcast
SentTo(file, buffer, s) ==
    CASE buffer = "nlocal_keys" -> file.key_counts[s + 1]
      [] buffer = "nlocal_points" -> file.point_counts[s + 1]
      [] buffer = "local_keys" ->
            SubSeq(file.keys, file.key_displs[s + 1] + 1,
                   file.key_displs[s + 1] + file.key_counts[s + 1])
      [] buffer = "local_points" ->
            SubSeq(file.points, file.point_displs[s + 1] + 1,
                   file.point_displs[s + 1] + file.point_counts[s + 1])
      [] buffer = "balanced" -> file.balanced
      [] buffer = "global_domain" -> file.domain

\* a value received into a buffer: local_keys and local_points have the
\* lengths nlocal_keys and nlocal_points (lines 479-480)
Received(locals, buffer, body) ==
    CASE buffer = "local_keys" ->
            [locals EXCEPT !.local_keys = SubSeq(body, 1, locals.nlocal_keys)]
      [] buffer = "local_points" ->
            [locals EXCEPT !.local_points = SubSeq(body, 1, locals.nlocal_points)]
      [] OTHER -> [locals EXCEPT ![buffer] = body]

\* the position of a rank that has called n collectives and left the last
AfterCall(r, n) ==
    IF n = Len(RootCalls) THEN "build"
    ELSE IF r = root_rank /\ n = 2 THEN "open"
    ELSE "collective"

\* world.duplicate() (line 437); the root then opens the file
Duplicate(r) ==
    /\ pc[r] = "read_hdf5"
    /\ pc' = [pc EXCEPT ![r] = IF r = root_rank THEN "open" ELSE "collective"]
    /\ UNCHANGED <<const, points, tree, seeds, blocktree, chan, points_to_keys, keys, bufsize>>

\* the root opens the file and compares the sizes (lines 448-457 and
\* 486-494); comm.abort(1) ends every process of the communicator.  The
\* duplication of the communicator is complete when every rank has called it.
RootOpen ==
    /\ pc[root_rank] = "open"
    /\ \A r \in Ranks : pc[r] # "read_hdf5"
    /\ IF fn.file.comm_size # size
       THEN pc' = [r \in Ranks |-> "aborted"]
       ELSE pc' = [pc EXCEPT ![root_rank] = "collective"]
    /\ UNCHANGED <<const, points, tree, seeds, blocktree, chan, points_to_keys, keys, bufsize>>

\* a collective of the root: it sends every other rank its part and keeps
\* its own
RootCollective ==
    LET Call(call) ==
            /\ chan' = [r \in Ranks |->
                          IF r = root_rank THEN chan[r]
                          ELSE Append(chan[r],
                                      Message(root_rank, Collective(call.method),
                                              SentTo(fn.file, call.buffer, r)))]
            /\ fn' = [fn EXCEPT !.calls[root_rank] = Append(@, call),
                                !.locals[root_rank] =
                                    Received(@, call.buffer,
                                             SentTo(fn.file, call.buffer, root_rank))]
            /\ pc' = [pc EXCEPT ![root_rank] =
                        AfterCall(root_rank, Len(fn.calls[root_rank]) + 1)]
    IN  /\ pc[root_rank] = "collective"
        /\ Call(RootCalls[Len(fn.calls[root_rank]) + 1])
        /\ UNCHANGED <<overflow_checks, size, balanced, input, points, tree, seeds,
                       blocktree, points_to_keys, keys, bufsize>>

\* another rank calls its next collective and waits for the root
OtherCall(r) ==
    /\ r # root_rank
    /\ pc[r] = "collective"
    /\ fn' = [fn EXCEPT !.calls[r] = Append(@, OtherCalls[Len(fn.calls[r]) + 1])]
    /\ pc' = [pc EXCEPT ![r] = "waiting"]
    /\ UNCHANGED <<overflow_checks, size, balanced, input, points, tree, seeds,
                   blocktree, chan, points_to_keys, keys, bufsize>>

\* the collective a rank waits in completes with what the root sent for the
\* same operation
OtherCollective(r) ==
    LET Leave(call) ==
            /\ Head(chan[r]).kind = Collective(call.method)
            /\ fn' = [fn EXCEPT !.locals[r] = Received(@, call.buffer, Head(chan[r]).body)]
    IN  /\ pc[r] = "waiting"
        /\ chan[r] # <<>>
        /\ Leave(fn.calls[r][Len(fn.calls[r])])
        /\ chan' = [chan EXCEPT ![r] = Tail(@)]
        /\ pc' = [pc EXCEPT ![r] = AfterCall(r, Len(fn.calls[r]))]
        /\ UNCHANGED <<overflow_checks, size, balanced, input, points, tree, seeds,
                       blocktree, points_to_keys, keys, bufsize>>

\* the rank builds its DistributedTree and returns (lines 569-580)
Build(r) ==
    LET Tree(locals) ==
            /\ keys' = [keys EXCEPT ![r] = locals.local_keys]
            /\ points' = [points EXCEPT ![r] = locals.local_points]
            /\ points_to_keys' = [points_to_keys EXCEPT ![r] =
                    assign_nodes_to_leaves(PointKeys(locals.local_points), locals.local_keys)]
            /\ balanced' = locals.balanced
    IN  /\ pc[r] = "build"
        /\ Tree(fn.locals[r])
        /\ pc' = [pc EXCEPT ![r] = "done"]
        /\ UNCHANGED <<overflow_checks, size, input, tree, seeds, blocktree, chan, bufsize, fn>>

NextRead ==
    \/ \E r \in Ranks : Duplicate(r)
    \/ RootOpen
    \/ RootCollective
    \/ \E r \in Ranks : OtherCall(r)
    \/ \E r \in Ranks : OtherCollective(r)
    \/ \E r \in Ranks : Build(r)

SpecRead == InitRead /\ [][NextRead]_vars

-----------------------------------------------------------------------------
(* The sends and receives of complete_blocktree and of                      *)
(* transfer_points_to_blocktree, with sends that return only when the       *)
(* message has been received.  Which calls a rank makes depends on its rank *)
(* and on the size of the communicator only; what is sent is left out.      *)
(* pc[r] is the call rank r is at, chan[r] the messages sent to rank r and  *)
(* not received yet.                                                        *)

\* lines 103-104 and 254-255
next_rank(r) == IF r + 1 < size THEN r + 1 ELSE 0
previous_rank(r) == IF r > 0 THEN r - 1 ELSE size - 1

\* every rank sends to the previous rank, the one without a rank before it
\* as well
Sends_every_rank(r) == r >= 0

\* `if rank > 0` (lines 110 and 257) and `if rank < (size - 1)` (lines 117
\* and 269)
Sends(r) == r > 0
Receives(r) == r < size - 1

\* the calls in program order: send and receive of complete_blocktree (lines
\* 112 and 118), the two sends and the two receives of
\* transfer_points_to_blocktree (lines 265, 266, 271 and 273-275)
ExchangeCalls ==
    <<[call |-> "send", kind |-> "seed"], [call |-> "receive", kind |-> "seed"],
      [call |-> "send", kind |-> "count"], [call |-> "send", kind |-> "points"],
      [call |-> "receive", kind |-> "count"], [call |-> "receive", kind |-> "points"]>>

\* the position of a rank: the number of the call it is at, and whether it
\* has sent the message of a send and waits for it to be received
At(n, sent) == [call |-> n, sent |-> sent]

Returned_from_exchanges(r) == pc[r].call > Len(ExchangeCalls)

InitSync ==
    /\ overflow_checks \in BOOLEAN
    /\ size \in 1..(MaxRanks + 2)
    /\ balanced \in BOOLEAN
    /\ input = <<>>
    /\ pc = [r \in Ranks |-> At(1, FALSE)]
    /\ points = [r \in Ranks |-> <<>>]
    /\ tree = [r \in Ranks |-> <<>>]
    /\ seeds = [r \in Ranks |-> <<>>]
    /\ blocktree = [r \in Ranks |-> <<>>]
    /\ chan = [r \in Ranks |-> <<>>]
    /\ points_to_keys = [r \in Ranks |-> {}]
    /\ keys = [r \in Ranks |-> <<>>]
    /\ bufsize = [r \in Ranks |-> 0]
    /\ fn = NoFn

\* a call the rank does not make is passed
PassCall(r) ==
    /\ ~Returned_from_exchanges(r)
    /\ \/ ExchangeCalls[pc[r].call].call = "send" /\ ~Sends(r)
       \/ ExchangeCalls[pc[r].call].call = "receive" /\ ~Receives(r)
    /\ pc' = [pc EXCEPT ![r] = At(pc[r].call + 1, FALSE)]
    /\ UNCHANGED <<const, points, tree, seeds, blocktree, chan, points_to_keys, keys, bufsize>>

\* previous_process.send(..): the message is on its way
SendCall(r) ==
    /\ ~Returned_from_exchanges(r)
    /\ ExchangeCalls[pc[r].call].call = "send" /\ Sends(r) /\ ~pc[r].sent
    /\ chan' = [chan EXCEPT ![previous_rank(r)] =
                  Append(@, Message(r, ExchangeCalls[pc[r].call].kind, <<>>))]
    /\ pc' = [pc EXCEPT ![r] = At(pc[r].call, TRUE)]
    /\ UNCHANGED <<const, points, tree, seeds, blocktree, points_to_keys, keys, bufsize>>

\* the send returns when the message has been received
SendReturn(r) ==
    /\ ~Returned_from_exchanges(r)
    /\ pc[r].sent
    /\ \A i \in 1..Len(chan[previous_rank(r)]) : chan[previous_rank(r)][i].from # r
    /\ pc' = [pc EXCEPT ![r] = At(pc[r].call + 1, FALSE)]
    /\ UNCHANGED <<const, points, tree, seeds, blocktree, chan, points_to_keys, keys, bufsize>>

\* next_process.receive_into(..): the first message from the next rank
ReceiveCall(r) ==
    /\ ~Returned_from_exchanges(r)
    /\ ExchangeCalls[pc[r].call].call = "receive" /\ Receives(r)
    /\ chan[r] # <<>>
    /\ Head(chan[r]).from = next_rank(r)
    /\ Head(chan[r]).kind = ExchangeCalls[pc[r].call].kind
    /\ chan' = [chan EXCEPT ![r] = Tail(@)]
    /\ pc' = [pc EXCEPT ![r] = At(pc[r].call + 1, FALSE)]
    /\ UNCHANGED <<const, points, tree, seeds, blocktree, points_to_keys, keys, bufsize>>

NextSync ==
    \/ \E r \in Ranks : PassCall(r)
    \/ \E r \in Ranks : SendCall(r)
    \/ \E r \in Ranks : SendReturn(r)
    \/ \E r \in Ranks : ReceiveCall(r)

\* every rank is a process of its own that runs on while it is not blocked
SpecSync == InitSync /\ [][NextSync]_vars /\ WF_vars(NextSync)

-----------------------------------------------------------------------------
(* Properties of the tree DistributedTree::new returns *)

\* every rank has returned from DistributedTree::new
Finished == \A r \in Ranks : pc[r] = "done"

\* b is k or an ancestor of k
Encloses(b, k) == KeyEq(b, k) \/ is_ancestor(b, k)

\* the deepest-level key of a point
LeafKey(p) == from_point(p.coordinate)

\* the local block set of a rank: the values of points_to_keys
LocalBlocks(r) == MapValues(points_to_keys[r])

\* the positions of the points of rank r that block b encloses
PointsIn(r, b) == {i \in 1..Len(points[r]) : Encloses(b, LeafKey(points[r][i]))}

\* C1: in the final tree no block of a rank encloses more than NCRIT of the
\* points of that rank, points that share a deepest-level key counted each.
C1_PointsPerBlock ==
    Finished => \A r \in Ranks : \A b \in LocalBlocks(r) :
                    Cardinality(PointsIn(r, b)) <= NCRIT

\* every rank was given at least one point
EveryRankGiven == \A r \in Ranks : LocalInput(input, r, size) # <<>>

Occurrences(sq, x) == Cardinality({i \in 1..Len(sq) : sq[i] = x})

\* the coordinates of the points the ranks hold, in rank order
HeldCoordinates ==
    LET RECURSIVE Cat(_)
        Cat(r) == IF r >= size THEN <<>>
                  ELSE [i \in 1..Len(points[r]) |-> points[r][i].coordinate] \o Cat(r + 1)
    IN  Cat(0)

\* C2: in the final tree over ranks that were each given a point, every input
\* point is held by exactly one rank, exactly one block of that rank's local
\* block set encloses its deepest-level key, no block of another rank does,
\* and points_to_keys of that rank has an entry for the point's key.
C2_OneBlockOneRank ==
    Finished /\ EveryRankGiven =>
        /\ \A c \in Sites : Occurrences(HeldCoordinates, c) = Occurrences(input, c)
        /\ \A r \in Ranks : \A i \in 1..Len(points[r]) :
              /\ Cardinality({b \in LocalBlocks(r) :
                                 Encloses(b, LeafKey(points[r][i]))}) = 1
              /\ \A o \in Ranks \ {r} :
                    \A b \in LocalBlocks(o) : ~Encloses(b, LeafKey(points[r][i]))
              /\ Contains(MapKeys(points_to_keys[r]), points[r][i].key)

\* C3: in the final tree the maximum block of a rank is strictly less than
\* the minimum block of the next rank.
C3_RanksOrdered ==
    Finished =>
        \A r \in Ranks :
            r + 1 < size /\ LocalBlocks(r) # {} /\ LocalBlocks(r + 1) # {} =>
                KeyLess(KeyMax(SetToSeq(LocalBlocks(r))),
                        KeyMin(SetToSeq(LocalBlocks(r + 1))))

\* the side of the cube of a key, in deepest-level cells
Side(k) == Pow2(DEEPEST_LEVEL - level(k))

Touch(lo1, s1, lo2, s2) == lo1 + s1 = lo2 \/ lo2 + s2 = lo1
Overlap(lo1, s1, lo2, s2) == lo1 < lo2 + s2 /\ lo2 < lo1 + s1

\* the cubes of a and b share a face
FaceAdjacent(a, b) ==
    \E axis \in 1..3 :
        /\ Touch(a.anchor[axis], Side(a), b.anchor[axis], Side(b))
        /\ \A o \in (1..3) \ {axis} :
              Overlap(a.anchor[o], Side(a), b.anchor[o], Side(b))

FinalBlocks == UNION {LocalBlocks(r) : r \in Ranks}

\* C4: the final blocks of a tree built with balanced = true are 2:1
\* balanced: the levels of face-adjacent blocks differ by at most 1.
C4_TwoToOne ==
    Finished /\ balanced =>
        \A a, b \in FinalBlocks : FaceAdjacent(a, b) => level(a) - level(b) <= 1

\* the Morton index of a key, and that of the last deepest-level cell in it
IndexOf(k) == <<k.morton[1], k.morton[2]>>
LastIndex(k) == OrLowMask(IndexOf(k), 3 * (DEEPEST_LEVEL - level(k)))

IndexLeq(p, q) == p[1] < q[1] \/ (p[1] = q[1] /\ p[2] <= q[2])

\* the cube of n begins where the cube of k ends
Follows(k, n) == AddSmall(LastIndex(k), 1) = IndexOf(n)

\* the cube of n lies in the cube of k, a coarser key
Inside(n, k) ==
    /\ level(k) < level(n)
    /\ IndexLeq(IndexOf(k), IndexOf(n))
    /\ IndexLeq(IndexOf(n), LastIndex(k))

\* complete_blocktree has just returned on every rank
BlocktreesComplete == \A r \in Ranks : pc[r] = "transfer_send"

\* the block lists complete_blocktree returned, in rank order
AllBlocks ==
    LET RECURSIVE Cat(_)
        Cat(r) == IF r >= size THEN <<>> ELSE blocktree[r] \o Cat(r + 1)
    IN  Cat(0)

\* a list of keys is ascending, holds no key next to one of its descendants
\* (in an ascending list an ancestor comes right before a descendant or a
\* copy of itself), and each cube begins where the one before it ends
SortedKeys(ks) == \A i \in 1..(Len(ks) - 1) : KeyLeq(ks[i], ks[i + 1])
LinearKeys(ks) == \A i \in 1..(Len(ks) - 1) : ~Inside(ks[i + 1], ks[i])
TilingKeys(ks) == \A i \in 1..(Len(ks) - 1) : Follows(ks[i], ks[i + 1])

\* C5: after complete_blocktree has run on all ranks, the block lists in rank
\* order are sorted, linear, and tile the region between minimum and maximum.
C5_CoarseTree ==
    BlocktreesComplete =>
        LET Holds(ks) == SortedKeys(ks) /\ LinearKeys(ks) /\ TilingKeys(ks)
        IN  Holds(AllBlocks)

\* transfer_points_to_blocktree has just returned on every rank
PointsTransferred == \A r \in Ranks : pc[r] = "split"

\* C6: after the point transfer every point a rank holds is enclosed by one
\* of the rank's blocks of the block tree, and by no block of another rank.
C6_PointsInOwnBlocks ==
    PointsTransferred =>
        \A r \in Ranks : \A i \in 1..Len(points[r]) :
            /\ \E b \in Range(blocktree[r]) : Encloses(b, LeafKey(points[r][i]))
            /\ \A o \in Ranks \ {r} : \A b \in Range(blocktree[o]) :
                  ~Encloses(b, LeafKey(points[r][i]))

\* no cell lies between the blocks before position i + 1 and the block there
NoGapBefore(ks, i) ==
    \E j \in 1..i : IndexLeq(IndexOf(ks[i + 1]), AddSmall(LastIndex(ks[j]), 1))

\* C7: on each rank the final blocks leave no gap between the minimum and
\* the maximum block: every cell between them is enclosed by a block (a
\* block counts as enclosing itself).
C7_Span ==
    Finished =>
        \A r \in Ranks :
            LET Spans(ks) == \A i \in 1..(Len(ks) - 1) : NoGapBefore(ks, i)
            IN  Spans(SetToSeq(LocalBlocks(r)))

\* C8: a single rank with at most NCRIT points, unbalanced: construction
\* returns, the root is the only block, and every key is mapped to the root.
C8_RootBlock ==
    size = 1 /\ ~balanced /\ Len(input) <= NCRIT =>
        /\ pc[0] # "panicked"
        /\ pc[0] = "done" =>
              /\ LocalBlocks(0) = {ROOT}
              /\ \A i \in 1..Len(points[0]) :
                    Contains(MapKeys(points_to_keys[0]), points[0][i].key)

-----------------------------------------------------------------------------
(* Properties of single functions *)

\* the anchor with the bits below a level zeroed
a_at_level(anchor, lvl) ==
    [i \in 1..3 |-> (anchor[i] \div Pow2(DEEPEST_LEVEL - lvl)) * Pow2(DEEPEST_LEVEL - lvl)]

\* C9 as stated: decoding the identifier encode_anchor(a, l) packs yields the
\* level l and the anchor a with the bits below level l zeroed.
C9_RoundTripZeroed ==
    fn.op = "decoded" =>
        fn.decoded = a_at_level(fn.anchor, fn.level) /\ fn.found_level = fn.level

\* C9, amended: decoding the identifier encode_anchor(a, l) packs yields the
\* level l and the anchor a itself, whatever bits a has below level l.
C9_RoundTrip ==
    fn.op = "decoded" => fn.decoded = fn.anchor /\ fn.found_level = fn.level

\* a round trip at a level above the deepest, of an anchor with bits below it
C9_Witness ==
    /\ fn.op = "decoded"
    /\ fn.level < DEEPEST_LEVEL
    /\ a_at_level(fn.anchor, fn.level) # fn.anchor

\* the cubes of m and k have a cell in common
Meets(m, k) == KeyEq(m, k) \/ Inside(m, k) \/ Inside(k, m)

\* m lies in the gap between the cube of a and the cube of b
InGap(a, b, m) ==
    /\ ~IndexLeq(IndexOf(m), LastIndex(a))
    /\ ~IndexLeq(IndexOf(b), LastIndex(m))

\* C10: complete_region(a, b) of well-formed keys a < b returns a list that
\* is sorted, holds neither a nor b, is linear, has no member that meets a
\* or b, tiles the cells between a and b that are in neither, and holds only
\* descendants of finest_ancestor(a, b); also when a is an ancestor of b.
C10_Region ==
    fn.op \in {"returned", "no_return"} =>
        /\ fn.op = "returned"
        /\ LET Holds(a, b, region, fa) ==
                   /\ SortedKeys(region)
                   /\ ~Contains(Range(region), a) /\ ~Contains(Range(region), b)
                   /\ LinearKeys(region)
                   /\ \A i \in 1..Len(region) :
                         ~Meets(region[i], a) /\ ~Meets(region[i], b)
                   /\ ~Inside(b, a) =>
                         TilingKeys(<<a>> \o SelectSeq(region, LAMBDA m : InGap(a, b, m))
                                        \o <<b>>)
                   /\ \A i \in 1..Len(region) : Inside(region[i], fa)
           IN  Holds(fn.a, fn.b, fn.region, finest_ancestor(fn.a, fn.b))

\* no key of the list is a second time in it, and none is an ancestor of another
NoKeyTwice(ks) == \A i, j \in 1..Len(ks) : i < j => ~KeyEq(ks[i], ks[j])
NoAncestorIn(ks) == \A i, j \in 1..Len(ks) : ~is_ancestor(ks[i], ks[j])

\* C12: the list linearize leaves, whatever list it was given (repeated keys
\* included), is sorted, holds every key at most once and holds no key
\* together with one of its ancestors.
C12_Linear ==
    fn.op = "linearized" =>
        SortedKeys(fn.linear) /\ NoKeyTwice(fn.linear) /\ NoAncestorIn(fn.linear)

\* C13: linearize is idempotent: linearizing the list linearize left gives
\* that list again.
C13_Idempotent ==
    fn.op = "relinearized" => fn.again = fn.linear

\* the anchor of a key of level lvl moved by a number of boxes on every axis
Shifted(anchor, lvl, boxes) ==
    [i \in 1..3 |-> anchor[i] + boxes[i] * Pow2(DEEPEST_LEVEL - lvl)]

\* C14: children(k) of a well-formed key k above the deepest level are eight
\* keys of the next level in strictly ascending order, parent(c) is k for
\* each child c, and siblings(c) are the children of k.
C14_Children ==
    fn.op = "children_of" /\ level(fn.k) < DEEPEST_LEVEL =>
        /\ Len(fn.children) = 8
        /\ \A i \in 1..8 : level(fn.children[i]) = level(fn.k) + 1
        /\ \A i \in 1..7 : KeyLess(fn.children[i], fn.children[i + 1])
        /\ \A i \in 1..8 : fn.parents[i] = fn.k /\ fn.siblings[i] = fn.children

\* the children of a key of the level above the deepest were asked for
C14_Witness ==
    fn.op = "children_of" /\ level(fn.k) = DEEPEST_LEVEL - 1 /\ fn.k.anchor # <<0, 0, 0>>

\* C15: finest_last_child(k) of a well-formed key k is the key of the deepest
\* level at the greatest anchor inside k; it is k at the deepest level and a
\* descendant of k above it, and no key inside k is greater.
C15_FinestLastChild ==
    fn.op = "finest_last_child_of" =>
        /\ fn.last = KeyAt([i \in 1..3 |-> fn.k.anchor[i] + Side(fn.k) - 1], DEEPEST_LEVEL)
        /\ IF level(fn.k) = DEEPEST_LEVEL THEN KeyEq(fn.last, fn.k)
           ELSE is_ancestor(fn.k, fn.last)
        /\ IndexOf(fn.last) = LastIndex(fn.k)

\* a and b lie in different children of the root
InDifferentOctants(a, b) ==
    /\ level(a) > 0 /\ level(b) > 0
    /\ Bits(IndexOf(a), 3 * (DEEPEST_LEVEL - 1), 3) # Bits(IndexOf(b), 3 * (DEEPEST_LEVEL - 1), 3)

\* C16: if a is a strict ancestor of b, finest_ancestor(a, b) and
\* finest_ancestor(b, a) both return a; and finest_ancestor returns the root
\* only for keys that lie in different children of the root.
C16_AncestorItself ==
    fn.op = "finest_ancestor_of" =>
        /\ is_ancestor(fn.a, fn.b) => fn.of_a = fn.a /\ fn.of_b = fn.a
        /\ KeyEq(fn.of_a, ROOT) => InDifferentOctants(fn.a, fn.b)

\* C17: finest_ancestor(a, b) of any two keys returns a key that encloses a
\* and b (an ancestor, or the key itself), and no strict descendant of the
\* returned key encloses both.
C17_FinestCommon ==
    fn.op = "finest_ancestor_of" =>
        /\ fn.of_a # PanicKey
        /\ Encloses(fn.of_a, fn.a) /\ Encloses(fn.of_a, fn.b)
        /\ \A c \in {fn.a} \cup ancestors(fn.a) : Encloses(c, fn.b) => ~Inside(c, fn.of_a)

\* C18: find_key_in_direction(k, d) returns the key of the level of k at the
\* anchor of k moved by d boxes of that level if the moved anchor is within
\* [0, 2^16) on every axis, and none otherwise; d = 0 returns k.
C18_KeyInDirection ==
    fn.op = "found_key" =>
        LET Is(moved) ==
                IF \A i \in 1..3 : moved[i] >= 0 /\ moved[i] < LEVEL_SIZE
                THEN fn.found = <<KeyAt(moved, level(fn.k))>>
                ELSE fn.found = <<>>
        IN  Is(Shifted(fn.k.anchor, level(fn.k), fn.direction))

\* a key is well-formed: its level is one of 0..DEEPEST_LEVEL, bit 63 of the
\* identifier is zero, the anchor is the one the identifier decodes to, and
\* the anchor lies on the grid of the level
WellFormed(k) ==
    /\ level(k) \in 0..DEEPEST_LEVEL
    /\ k.morton[1] < Pow2(24)
    /\ k.anchor = decode_key(k.morton)
    /\ \A i \in 1..3 : k.anchor[i] % Side(k) = 0

\* C19: every key the methods of a well-formed key return is well-formed.
C19_WellFormed ==
    fn.op = "key_algebra_of" => \A r \in fn.returned : WellFormed(r[2])

\* the eight members of the list from position i on are the children of one
\* node that follows a and whose cube ends before b
OctetAt(region, i, a, b) ==
    LET Whole(p) ==
            /\ p # PanicKey
            /\ KeyLess(a, p) /\ ~IndexLeq(IndexOf(b), LastIndex(p))
            /\ SubSeq(region, i, i + 7) = children(p)
    IN  level(region[i]) > 0 /\ Whole(parent(region[i]))

\* C11: the list complete_region(a, b) returns is the coarsest tiling: it
\* never holds all eight children of a node whose cube lies between a and b
\* (the parent would tile the same cells with one key).
C11_Coarsest ==
    fn.op = "returned" =>
        \A i \in 1..(Len(fn.region) - 7) : ~OctetAt(fn.region, i, fn.a, fn.b)

\* a region that holds the seven siblings of a key next to one of its bounds
C11_Witness ==
    /\ fn.op = "returned"
    /\ \E i \in 1..(Len(fn.region) - 6) :
          /\ level(fn.region[i]) > 0
          /\ SubSeq(fn.region, i, i + 6) = Tail(children(parent(fn.region[i])))

-----------------------------------------------------------------------------
(* Properties of the boundary exchanges *)

\* the kinds of the messages in flight to a rank, in the order sent
KindsTo(d) == [i \in 1..Len(chan[d]) |-> chan[d][i].kind]

\* the kinds of the messages rank d has yet to receive from its successor
Pending(d) ==
    IF d = size - 1 THEN <<>>
    ELSE IF pc[d] \in {"encode", "sort1", "local_tree", "blocktree_send", "blocktree_receive"}
    THEN <<"seed", "count", "points">>
    ELSE IF pc[d] \in {"transfer_send", "transfer_receive"} THEN <<"count", "points">>
    ELSE <<>>

IsPrefix(xs, ys) == Len(xs) <= Len(ys) /\ xs = SubSeq(ys, 1, Len(xs))

\* C20: in the exchanges of complete_blocktree and of
\* transfer_points_to_blocktree every message in flight to a rank comes from
\* the next rank (none from the rank itself, none to the last rank), the
\* messages in flight are the next ones the rank receives, in the order
\* minimum seed, count, points, and a count is the length of the list of
\* points sent after it.
C20_Exchanges ==
    \A d \in Ranks :
        /\ \A i \in 1..Len(chan[d]) : chan[d][i].from = d + 1 /\ chan[d][i].from \in Ranks
        /\ d = size - 1 => chan[d] = <<>>
        /\ pc[d] # "panicked" => IsPrefix(KindsTo(d), Pending(d))
        /\ \A i \in 1..(Len(chan[d]) - 1) :
              chan[d][i].kind = "count" => chan[d][i].body = Len(chan[d][i + 1].body)

\* a rank between two others has sent its seed, its count and a non-empty
\* list of points before its predecessor has received any of them, and has
\* yet to receive what its successor has sent
C20_Witness ==
    \E d \in Ranks :
        /\ d > 0 /\ d < size - 1
        /\ Len(chan[d - 1]) = 3 /\ chan[d - 1][3].body # <<>>
        /\ chan[d] # <<>>

-----------------------------------------------------------------------------
(* Properties of failure and termination *)

\* C21: finest_ancestor(a, b) of any two well-formed keys, the root among
\* them, returns a key: the walk ends and parent is never called on the root.
C21_NeverFails ==
    fn.op = "finest_ancestor_of" =>
        (WellFormed(fn.a) /\ WellFormed(fn.b) => fn.of_a # PanicKey /\ fn.of_b # PanicKey)

\* every rank holds a point; a rank the sort left without one fails in
\* LocalTree and holds none later
EveryRankHolds == \A r \in Ranks : points[r] # <<>>

\* C22: if the sort leaves every rank a point, no rank fails in linearize,
\* complete and find_seeds (LocalTree), in complete_blocktree (BlocktreeSend,
\* BlocktreeReceive) or in split_blocks (SplitBlocks): none of them calls
\* children at the deepest level or parent on the root, or unwraps the
\* minimum of an empty list.
C22_Guarded ==
    [][\A r \in Ranks :
          (EveryRankHolds
             /\ pc[r] \in {"local_tree", "blocktree_send", "blocktree_receive", "split"})
          => pc'[r] # "panicked"]_vars

-----------------------------------------------------------------------------
(* Properties of read_hdf5 *)

\* the methods and the buffers of a list of calls
MethodsOf(calls) == [i \in 1..Len(calls) |-> Collective(calls[i].method)]
BuffersOf(calls) == [i \in 1..Len(calls) |-> calls[i].buffer]

\* C23: if the stored comm_size differs from the size of the communicator,
\* read_hdf5 aborts it: no rank returns a tree, the root calls no collective
\* and nothing is sent to or received by any rank, and once the root has
\* compared the sizes every rank is ended.  If the sizes are equal, the
\* collectives a rank has called are the first of two scatters, two
\* variable-count scatters and two broadcasts, in this order and for the same
\* buffers on every rank, and a rank returns after all six.
C23_ReadCollectives ==
    fn.op = "read_hdf5" =>
        IF fn.file.comm_size # size
        THEN /\ \A r \in Ranks :
                   /\ pc[r] \notin {"build", "done"}
                   /\ chan[r] = <<>>
                   /\ fn.locals[r] = DefaultLocals
                   /\ keys[r] = <<>> /\ points[r] = <<>>
             /\ fn.calls[root_rank] = <<>>
             /\ pc[root_rank] \notin {"read_hdf5", "open"} => \A r \in Ranks : pc[r] = "aborted"
        ELSE \A r \in Ranks :
                /\ pc[r] # "aborted"
                /\ IsPrefix(MethodsOf(fn.calls[r]),
                            <<"scatter", "scatter", "scatter_varcount", "scatter_varcount",
                              "broadcast", "broadcast">>)
                /\ IsPrefix(BuffersOf(fn.calls[r]),
                            <<"nlocal_keys", "nlocal_points", "local_keys", "local_points",
                              "balanced", "global_domain">>)
                /\ pc[r] \in {"build", "done"} => Len(fn.calls[r]) = Len(RootCalls)

\* a communicator of more ranks than the file was written by has been aborted
\* while another rank waited in its first scatter
C23_Witness ==
    /\ fn.op = "read_hdf5"
    /\ size > fn.file.comm_size
    /\ \A r \in Ranks : pc[r] = "aborted"
    /\ \E r \in Ranks : fn.calls[r] # <<>>

-----------------------------------------------------------------------------
(* Properties of complete, split_blocks and linearize *)

C25_SplitTerminates ==
    fn.op \in {"split_blocks", "split", "panicked"} =>
        /\ fn.op # "panicked"
        /\ fn.op = "split_blocks" => fn.round <= DEEPEST_LEVEL /\ fn.round < WalkFuel
        /\ fn.round <= DEEPEST_LEVEL + 1
        /\ \A b \in fn.over : level(b) < DEEPEST_LEVEL

\* the loop was left after it had split blocks down to the deepest level
C25_Witness ==
    /\ fn.op = "split"
    /\ fn.round = DEEPEST_LEVEL + 1
    /\ \E b \in Range(fn.blocktree) : level(b) = DEEPEST_LEVEL

\* C26: the list linearize leaves for a non-empty key list, one of a single
\* key included, is not empty, holds only keys of the list and holds the
\* greatest key of the list as its last.
C26_KeepsLast ==
    fn.op = "linearized" /\ fn.keys # <<>> =>
        /\ fn.linear # <<>>
        /\ \A i \in 1..Len(fn.linear) : fn.linear[i] \in Range(fn.keys)
        /\ KeyEq(fn.linear[Len(fn.linear)], KeyMax(fn.keys))

-----------------------------------------------------------------------------
(* Properties of the points and keys of the ranks *)

\* the pairs (coordinate, global_idx) phase 1 creates from the points rank r
\* was given
CreatedBy(r) ==
    [i \in 1..Len(LocalInput(input, r, size)) |-> <<LocalInput(input, r, size)[i], i - 1>>]

\* the pairs of a list of points
PairsOf(ps) == [i \in 1..Len(ps) |-> <<ps[i].coordinate, ps[i].global_idx>>]

\* the points rank r holds: before phase 1 the ones it is about to create,
\* and between the send and the receive of transfer_points_to_blocktree the
\* ones it has not sent
KeptBy(r) ==
    IF pc[r] = "encode" THEN CreatedBy(r)
    ELSE IF pc[r] = "transfer_receive" /\ r > 0
    THEN PairsOf(NotBelow(points[r], MinSeed(points[r], seeds[r], r)))
    ELSE PairsOf(points[r])

\* the points in flight to rank r
InFlightTo(r) ==
    LET RECURSIVE Cat(_)
        Cat(i) == IF i > Len(chan[r]) THEN <<>>
                  ELSE IF chan[r][i].kind = "points" THEN PairsOf(chan[r][i].body) \o Cat(i + 1)
                  ELSE Cat(i + 1)
    IN  Cat(1)

\* f(0) \o f(1) \o ... over the ranks
OverRanks(f(_)) ==
    LET RECURSIVE Cat(_)
        Cat(r) == IF r >= size THEN <<>> ELSE f(r) \o Cat(r + 1)
    IN  Cat(0)

SameBag(xs, ys) ==
    \A x \in Range(xs) \cup Range(ys) : Occurrences(xs, x) = Occurrences(ys, x)

\* C27: at every point of DistributedTree::new the pairs (coordinate,
\* global_idx) of the points the ranks hold, together with those in flight
\* between two ranks, are the pairs phase 1 created, each as often; in
\* the tree returned none is in flight, so the ranks hold exactly these.
C27_PointsConserved ==
    /\ SameBag(OverRanks(CreatedBy), OverRanks(KeptBy) \o OverRanks(InFlightTo))
    /\ Finished => \A r \in Ranks : chan[r] = <<>>

\* the tree is returned after a rank has received points from its successor
C27_Witness ==
    /\ Finished
    /\ \E r \in Ranks : bufsize[r] > 0 /\ Len(points[r]) > bufsize[r]

\* C29: in the tree DistributedTree::new returns, balanced or not, the keys
\* of the field `keys` of a rank are the blocks of the rank, the values of
\* points_to_keys.
C29_KeysAreBlocks ==
    Finished => \A r \in Ranks : Range(keys[r]) = LocalBlocks(r)

-----------------------------------------------------------------------------
(* Properties of the exchanges with blocking sends *)

\* rank r is in a send whose message has not been received, or in a receive
\* with no message to receive
BlockedInCall(r) ==
    /\ ~Returned_from_exchanges(r)
    /\ \/ pc[r].sent /\ \E i \in 1..Len(chan[previous_rank(r)]) :
                            chan[previous_rank(r)][i].from = r
       \/ /\ ExchangeCalls[pc[r].call].call = "receive" /\ Receives(r)
          /\ chan[r] = <<>>

\* C28: with sends that block until the message is received, in no state are
\* all ranks that have not returned blocked in a send or a receive, and every
\* rank returns from complete_blocktree and transfer_points_to_blocktree in
\* the end, whatever the size of the communicator.
C28_NoDeadlock ==
    /\ []((\E r \in Ranks : ~Returned_from_exchanges(r)) =>
             \E r \in Ranks : ~Returned_from_exchanges(r) /\ ~BlockedInCall(r))
    /\ <>(\A r \in Ranks : Returned_from_exchanges(r))

\* two ranks next to each other are blocked in their sends of the minimum
\* seed at once
C28_Witness ==
    \E r \in Ranks :
        /\ r > 1
        /\ BlockedInCall(r) /\ pc[r].sent
        /\ BlockedInCall(r - 1) /\ pc[r - 1].sent

-----------------------------------------------------------------------------
(* Properties of compute_interior_weights *)

\* C30: compute_interior_weights, called with a non-empty tree whose first
\* and last keys are descendants of the root and with as many weights as
\* keys, terminates: the while loop of a key ends after at most as many
\* iterations as there are levels, and the call does not panic.
C30_WeightsTerminate ==
    /\ fn.op = "while" => fn.steps <= DEEPEST_LEVEL
    /\ fn.op = "panicked" =>
          \/ Len(fn.keys) # Len(fn.weights)
          \/ fn.keys = <<>>
          \/ ~(is_ancestor(fn.root, fn.keys[1]) /\ is_ancestor(fn.root, fn.keys[Len(fn.keys)]))

====
